---- MODULE Spec2Model ----
(***************************************************************************)
(* A model of the LangChain / LangGraph demonstration scripts:             *)
(*   - the scatter/gather pipeline of usecase-019 (break_down ->           *)
(*     parallel_research -> synthesize) with its thread pool,              *)
(*   - the structured-output parsing of the graph nodes of usecase-011,    *)
(*     012, 013, 014, 017, 019 and 020,                                    *)
(*   - the fixed-query driver loops of step2.py and usecase-001..010.      *)
(* A model response is a sequence of text tokens; json.loads, str.split,   *)
(* str.strip and the line parsers are computed on that sequence.           *)
(***************************************************************************)
EXTENDS Integers, Sequences, FiniteSets, TLC

VARIABLES
    \* ---- usecase-019, main graph and thread pool
    content,          \* response.content of the break_down model call
    mpc,              \* position of the main graph / dispatching thread
    sub_questions,    \* MainState.sub_questions
    research_results, \* MainState.research_results (question -> result)
    results,          \* the local dict results of run_parallel_research
    submitted,        \* number of executor.submit calls done
    wpc,              \* position of each research_task
    task_start,       \* start_time local of each research_task
    task_result,      \* value returned by each research_task (its future)
    collected,        \* futures already yielded by as_completed
    now,              \* the wall clock read by time.time()
    execution_stats,  \* MainState.execution_stats
    attempts,         \* how many times each research_task was started
    max_workers,      \* size of the ThreadPoolExecutor (0: no pool)
    \* ---- structured-output parsing nodes
    node,             \* the node applied to the response
    response,         \* response.content given to the node
    node_out,         \* what the node returned (or that it raised)
    \* ---- fixed-query drivers
    script,           \* which driver runs
    qi,               \* index of the query being processed
    outcomes,         \* outcome of the latest agent.invoke
    invoked,          \* number of agent.invoke calls per query
    printed,          \* what the driver printed, in order
    dpc,              \* position of the driver
    \* ---- main of the graph scripts
    cli_script,       \* which graph script runs
    argc,             \* len(sys.argv) - 1
    cpc,              \* position of main
    exit_status,      \* exit status of the process (-1 while it runs)
    stdout,           \* what main printed, in order
    graph_built,      \* create_..._graph().compile() was called
    model_calls,      \* number of llm.invoke calls made by the nodes
    \* ---- the calculator tools
    calc_tool,        \* which calculator is called
    expression,       \* its argument
    calc_out,         \* what it returned
    \* ---- the pipelines that keep a log (usecase-014, usecase-020)
    pipe,             \* which pipeline runs
    ppc,              \* the node to run next, "END" or "raised"
    lists,            \* the list objects: identity -> elements
    docs,             \* the DocumentState objects: identity -> fields
    gstate,           \* the state record: its fields name objects
    received,         \* the state record the latest node was called with
    before,           \* the contents of that record when the node was called
    \* ---- the product tools of usecase-009
    objects,          \* the list objects; objects[1] is the one PRODUCT_CATALOG names
    loaded,           \* what json.load returned when the module was imported
    shop_tool,        \* the tool called latest
    shop_out,         \* what it returned
    \* ---- the refinement loop of usecase-013
    rpc,              \* the node the graph runs next, "END" or "raised"
    agent_state,      \* the AgentState
    runs,             \* how many times each node has run
    last_node,        \* the node that ran latest
    \* ---- the human-in-the-loop graph of usecase-017
    hpc,              \* the node the graph runs next, "END" or "raised"
    content_state,    \* the ContentState
    revisions,        \* how many times revise_content has run
    \* ---- the error-handling graph of usecase-016
    epc,              \* the node the graph runs next, "END" or "raised"
    processing_state, \* the ProcessingState
    visited,          \* the nodes that ran, in order
    \* ---- the branching graph of usecase-012
    bpc,              \* the node the graph runs next, "END" or "raised"
    complexity_text,  \* response.content of the analyze call
    branch_state,     \* the AgentState of usecase-012
    path,             \* the nodes that ran, in order
    \* ---- the tool-use graph of usecase-015
    tpc,              \* the node the graph runs next, "END" or "raised"
    tool_state        \* the ToolUseState

scatter_vars == <<content, mpc, sub_questions, research_results, results,
                  submitted, wpc, task_start, task_result, collected, now,
                  execution_stats, attempts, max_workers>>
parse_vars == <<node, response, node_out>>
driver_vars == <<script, qi, outcomes, invoked, printed, dpc>>
main_vars == <<cli_script, argc, cpc, exit_status, stdout, graph_built, model_calls>>
calc_vars == <<calc_tool, expression, calc_out>>
log_vars == <<pipe, ppc, lists, docs, gstate, received, before>>
shop_vars == <<objects, loaded, shop_tool, shop_out>>
refine_vars == <<rpc, agent_state, runs, last_node>>
hitl_vars == <<hpc, content_state, revisions>>
error_vars == <<epc, processing_state, visited>>
branch_vars == <<bpc, complexity_text, branch_state, path>>
tool_vars == <<tpc, tool_state>>
last_vars == <<error_vars, branch_vars, tool_vars>>
rest_vars == <<shop_vars, refine_vars, hitl_vars, last_vars>>
more_vars == <<main_vars, calc_vars, log_vars, rest_vars>>
vars == <<scatter_vars, parse_vars, driver_vars, more_vars>>

\* main of a graph script is not running
IdleMain ==
    /\ cli_script = "none" /\ argc = 0 /\ cpc = "none" /\ exit_status = -1
    /\ stdout = <<>> /\ graph_built = FALSE /\ model_calls = 0
\* the programs modelled further down are not running
\* no calculator is called
IdleCalc ==
    /\ calc_tool = "none"
    /\ expression = [toks |-> <<>>, spaced |-> TRUE]
    /\ calc_out = [kind |-> "none", label |-> "", n |-> 0, d |-> 1, float |-> FALSE]
\* no logging pipeline runs
NoState == [log |-> 0, document |-> 0, current_operation |-> "None"]
NoDoc == [status |-> "None", current_version |-> 0, versions |-> <<>>,
          edit_history |-> <<>>]
NoContents == [log |-> <<>>, document |-> NoDoc, current_operation |-> "None"]
IdleLog ==
    /\ pipe = "none" /\ ppc = "none" /\ lists = <<>> /\ docs = <<>>
    /\ gstate = NoState /\ received = NoState /\ before = NoContents
\* the module of usecase-009 is not imported
NoOutput == [kind |-> "none", ids |-> <<>>]
IdleShop ==
    /\ objects = <<>> /\ loaded = <<>> /\ shop_tool = "none" /\ shop_out = NoOutput
\* the graph of usecase-013 is not invoked
Missing == -1
NoScore == [nan |-> FALSE, tenths |-> 0]
NoAgentState ==
    [current_solution |-> Missing, quality_assessment |-> "", quality_score |-> NoScore,
     improvement_suggestions |-> Missing, iteration_count |-> Missing,
     final_solution |-> Missing]
NoRuns == [initial |-> 0, assess |-> 0, refine |-> 0, finalize |-> 0]
IdleRefine ==
    /\ rpc = "none" /\ agent_state = NoAgentState /\ runs = NoRuns
    /\ last_node = "none"
\* the graph of usecase-017 is not invoked
None == 0
NoFeedback == [type |-> "None", content |-> "None"]
initial_state ==
    [outline |-> "None", draft_content |-> None, human_feedback |-> NoFeedback,
     final_content |-> None, status |-> "draft_needed"]
IdleHitl == hpc = "none" /\ content_state = initial_state /\ revisions = 0
\* the graph of usecase-016 is not invoked
NoText == [none |-> TRUE, prefix |-> "", text |-> ""]
NoProcessingState ==
    [input_text |-> <<>>, processed_result |-> NoText, error |-> "None",
     status |-> "success"]
IdleError == epc = "none" /\ processing_state = NoProcessingState /\ visited = <<>>
\* the graph of usecase-012 is not invoked
NoBranchState ==
    [complexity |-> "absent", steps |-> "absent", solution |-> Missing,
     final_answer |-> Missing]
IdleBranch ==
    /\ bpc = "none" /\ complexity_text = <<>> /\ branch_state = NoBranchState
    /\ path = <<>>
\* the graph of usecase-015 is not invoked
initial_tool_state ==
    [thoughts |-> "[]", tools_to_use |-> <<>>, tool_results |-> <<>>,
     final_answer |-> 0]
IdleTools == tpc = "none" /\ tool_state = initial_tool_state
IdleLast == IdleError /\ IdleBranch /\ IdleTools
IdleRest == IdleShop /\ IdleRefine /\ IdleHitl /\ IdleLast
IdleMore == IdleMain /\ IdleCalc /\ IdleLog /\ IdleRest

(***************************************************************************)
(* Bounds of the model.                                                    *)
(***************************************************************************)
\* longest response enumerated token by token
MaxLen == 3
\* longest JSON array / bullet list generated as a response
MaxItems == 6
\* largest value of the wall clock
MaxClock == 2
\* most sub-questions in the runs where the clock advances
MaxTimedTasks == 2

(***************************************************************************)
(* Text.  A response is a sequence of tokens, each a piece of text.        *)
(***************************************************************************)
\* <fence> stands for the three backquotes of a markdown code fence
FenceJson == "<fence>json"
Fence == "<fence>"
NL == "\n"
SP == " "
\* the strings a response may quote: two short ones and the numbered
\* sub-questions Q1, Q2, ...
QName(i) == "Q" \o ToString(i)
\* the keys the prompts ask the model to use in its JSON objects
Keys == {"score", "assessment", "suggestions", "main_insights", "weaknesses",
         "improvement_suggestions", "title", "content", "order"}
Names == {"A", "B"} \cup Keys \cup {QName(i) : i \in 1..(MaxItems + 1)}
Quote(x) == "\"" \o x \o "\""
StrA == Quote("A")
StrB == Quote("B")
Num == "7"
Word == "text"
Dash == "-"
Hash == "#"

StrToks == {Quote(x) : x \in Names}
Tok == {"[", "]", "{", "}", ",", ":", FenceJson, Fence, NL, Dash, Num, Word, StrA, StrB}

\* the Python value of a JSON string literal
Unquote(t) == CHOOSE x \in Names : Quote(x) = t

IsSpace(t) == t \in {NL, SP}

\* str.strip(): whitespace removed at both ends
RECURSIVE LStrip(_)
LStrip(s) == IF s # <<>> /\ IsSpace(Head(s)) THEN LStrip(Tail(s)) ELSE s
RECURSIVE RStrip(_)
RStrip(s) ==
    IF s # <<>> /\ IsSpace(s[Len(s)]) THEN RStrip(SubSeq(s, 1, Len(s) - 1)) ELSE s
Strip(s) == RStrip(LStrip(s))

\* index of the first token of s in set T, 0 when there is none
RECURSIVE FindFrom(_, _, _)
FindFrom(s, T, i) ==
    IF i > Len(s) THEN 0
    ELSE IF s[i] \in T THEN i ELSE FindFrom(s, T, i + 1)
Find(s, T) == FindFrom(s, T, 1)

\* content.split(FenceJson)[1].split(Fence)[0].strip(): the text after the
\* first fence-json up to the next fence (which also begins any fence-json)
FencedPart(s) ==
    LET a == Find(s, {FenceJson})
        rest == SubSeq(s, a + 1, Len(s))
        b == Find(rest, {Fence, FenceJson})
    IN  Strip(IF b = 0 THEN rest ELSE SubSeq(rest, 1, b - 1))

HasFence(s) == Find(s, {FenceJson}) # 0

\* content.strip().startswith("[") and content.strip().endswith("]")
Bracketed(s) ==
    LET t == Strip(s) IN t # <<>> /\ t[1] = "[" /\ t[Len(t)] = "]"

\* content.split("\n")
RECURSIVE SplitLines(_)
SplitLines(s) ==
    LET k == Find(s, {NL})
    IN  IF k = 0 THEN <<s>>
        ELSE <<SubSeq(s, 1, k - 1)>> \o SplitLines(SubSeq(s, k + 1, Len(s)))

\* the characters of a sequence of tokens, as one string
RECURSIVE Text(_)
Text(s) == IF s = <<>> THEN "" ELSE Head(s) \o Text(Tail(s))

(***************************************************************************)
(* JSON values, uniformly shaped: t is the Python type after json.loads,   *)
(* s the text of a str or number, items the elements of a list or the      *)
(* values of a dict, keys the keys of a dict.                              *)
(***************************************************************************)
JStr(x) == [t |-> "str", s |-> x, items |-> <<>>, keys |-> <<>>]
JNum(x) == [t |-> "num", s |-> x, items |-> <<>>, keys |-> <<>>]
JList(xs) == [t |-> "list", s |-> "", items |-> xs, keys |-> <<>>]
JDict(ks, xs) == [t |-> "dict", s |-> "", items |-> xs, keys |-> ks]

ParseFail == [ok |-> FALSE, val |-> JStr(""), next |-> 0]
ParseOk(v, n) == [ok |-> TRUE, val |-> v, next |-> n]

\* position of the first non-whitespace token at or after i
RECURSIVE SkipWs(_, _)
SkipWs(s, i) == IF i <= Len(s) /\ IsSpace(s[i]) THEN SkipWs(s, i + 1) ELSE i

\* json's recursive-descent decoder on the tokens of s from position i
RECURSIVE ParseValue(_, _)
RECURSIVE ParseItems(_, _, _)
RECURSIVE ParseMembers(_, _, _, _)
ParseValue(s, i0) ==
    LET i == SkipWs(s, i0)
    IN  IF i > Len(s) THEN ParseFail
        ELSE IF s[i] \in StrToks THEN ParseOk(JStr(Unquote(s[i])), i + 1)
        ELSE IF s[i] = Num THEN ParseOk(JNum(Num), i + 1)
        ELSE IF s[i] = "["
             THEN LET j == SkipWs(s, i + 1)
                  IN  IF j <= Len(s) /\ s[j] = "]" THEN ParseOk(JList(<<>>), j + 1)
                      ELSE ParseItems(s, i + 1, <<>>)
        ELSE IF s[i] = "{"
             THEN LET j == SkipWs(s, i + 1)
                  IN  IF j <= Len(s) /\ s[j] = "}" THEN ParseOk(JDict(<<>>, <<>>), j + 1)
                      ELSE ParseMembers(s, i + 1, <<>>, <<>>)
        ELSE ParseFail
ParseItems(s, i, acc) ==
    LET r == ParseValue(s, i)
        j == SkipWs(s, r.next)
    IN  IF ~r.ok \/ j > Len(s) THEN ParseFail
        ELSE IF s[j] = "," THEN ParseItems(s, j + 1, Append(acc, r.val))
        ELSE IF s[j] = "]" THEN ParseOk(JList(Append(acc, r.val)), j + 1)
        ELSE ParseFail
ParseMembers(s, i0, ks, acc) ==
    LET i == SkipWs(s, i0)
        c == SkipWs(s, i + 1)
    IN  IF i > Len(s) \/ c > Len(s) THEN ParseFail
        ELSE IF s[i] \notin StrToks \/ s[c] # ":" THEN ParseFail
        ELSE LET r == ParseValue(s, c + 1)
                 j == SkipWs(s, r.next)
             IN  IF ~r.ok \/ j > Len(s) THEN ParseFail
                 ELSE IF s[j] = ","
                      THEN ParseMembers(s, j + 1, Append(ks, Unquote(s[i])), Append(acc, r.val))
                 ELSE IF s[j] = "}"
                      THEN ParseOk(JDict(Append(ks, Unquote(s[i])), Append(acc, r.val)), j + 1)
                 ELSE ParseFail

\* json.loads(text): the value, or ok = FALSE for json.JSONDecodeError
\* (nothing to decode, a bad token, or extra data after the value)
json_loads(s) ==
    LET r == ParseValue(s, 1)
    IN  IF r.ok /\ SkipWs(s, r.next) > Len(s) THEN r ELSE ParseFail

\* json.dumps of a list of strings, as the model would answer it
RECURSIVE DumpItems(_)
DumpItems(xs) ==
    IF xs = <<>> THEN <<>>
    ELSE IF Len(xs) = 1 THEN <<xs[1]>>
    ELSE <<xs[1], ",">> \o DumpItems(Tail(xs))
DumpArray(xs) == <<"[">> \o DumpItems(xs) \o <<"]">>

\* json.dumps(v): the tokens of a JSON value
RECURSIVE Dump(_)
RECURSIVE DumpAll(_)
RECURSIVE DumpPairs(_, _)
Dump(v) ==
    IF v.t = "str" THEN <<Quote(v.s)>>
    ELSE IF v.t = "num" THEN <<Num>>
    ELSE IF v.t = "list" THEN <<"[">> \o DumpAll(v.items) \o <<"]">>
    ELSE <<"{">> \o DumpPairs(v.keys, v.items) \o <<"}">>
DumpAll(xs) ==
    IF xs = <<>> THEN <<>>
    ELSE IF Len(xs) = 1 THEN Dump(xs[1])
    ELSE Dump(xs[1]) \o <<",", SP>> \o DumpAll(Tail(xs))
DumpPairs(ks, xs) ==
    IF ks = <<>> THEN <<>>
    ELSE <<Quote(ks[1]), ":", SP>> \o Dump(xs[1])
         \o (IF Len(ks) = 1 THEN <<>> ELSE <<",", SP>> \o DumpPairs(Tail(ks), Tail(xs)))

\* dict.get(k, default): the value of the last member named k
RECURSIVE DictGet(_, _, _)
DictGet(d, k, default) ==
    IF d.keys = <<>> THEN default
    ELSE LET n == Len(d.keys)
         IN  IF d.keys[n] = k THEN d.items[n]
             ELSE DictGet([d EXCEPT !.keys = SubSeq(d.keys, 1, n - 1),
                                    !.items = SubSeq(d.items, 1, n - 1)], k, default)

\* float(x): a number converts, a str that is no numeral is a ValueError,
\* a list or a dict a TypeError
FloatOk(v) == v.t = "num"

\* len(x): of a str, a list or a dict; TypeError for a number
LenOk(v) == v.t \in {"str", "list", "dict"}
PyLen(v) == IF v.t = "str" THEN Len(v.s) ELSE Len(v.items)

\* a markdown bullet list of the items
RECURSIVE DumpBullets(_)
DumpBullets(xs) ==
    IF xs = <<>> THEN <<>>
    ELSE <<Dash, SP, Word, xs[1], NL>> \o DumpBullets(Tail(xs))


(***************************************************************************)
(* usecase-019: break_down_question.                                       *)
(***************************************************************************)
MaxSubQuestions == 5

\* the three fallback sub-questions, built from the query
DefaultSubQuestions ==
    <<JStr("What are the key aspects of QUERY?"),
      JStr("What challenges exist regarding QUERY?"),
      JStr("What are current solutions related to QUERY?")>>

\* the tokens made only of characters of "- *0123456789."
BulletChars == {Dash, Num, SP}
RECURSIVE LStripChars(_, _)
LStripChars(s, T) ==
    IF s # <<>> /\ Head(s) \in T THEN LStripChars(Tail(s), T) ELSE s
RECURSIVE RStripChars(_, _)
RStripChars(s, T) ==
    IF s # <<>> /\ s[Len(s)] \in T
    THEN RStripChars(SubSeq(s, 1, Len(s) - 1), T) ELSE s

\* line.startswith("-") or line.startswith("*") or line[0].isdigit()
IsBulletLine(line) == line # <<>> /\ line[1] \in {Dash, Num}

\* the line-by-line parse: the text of every bullet or numbered line
RECURSIVE BulletItems(_)
BulletItems(lines) ==
    IF lines = <<>> THEN <<>>
    ELSE LET line == Strip(Head(lines))
             item == Strip(RStripChars(LStripChars(line, BulletChars), BulletChars))
         IN  (IF IsBulletLine(line) THEN <<JStr(Text(item))>> ELSE <<>>)
             \o BulletItems(Tail(lines))

\* sub_questions[:5]
Take(xs, n) == SubSeq(xs, 1, IF Len(xs) < n THEN Len(xs) ELSE n)
\* (a variant without the limit of line 67)
LimitQuestionsNone(xs) == xs
LimitQuestions(xs) == Take(xs, MaxSubQuestions)

\* isinstance(x, list) or the one-element list [x]
AsList(v) == IF v.t = "list" THEN v.items ELSE <<v>>

\* a dict key must be hashable: a list or a dict is not
Hashable(v) == v.t \notin {"list", "dict"}

Range(f) == {f[i] : i \in DOMAIN f}

\* lines 43-75: the sub-questions parsed from the response
ParseSubQuestions(c) ==
    IF HasFence(c)
    THEN LET r == json_loads(FencedPart(c))
         IN  IF r.ok THEN LimitQuestions(AsList(r.val)) ELSE DefaultSubQuestions
    ELSE IF Bracketed(c)
    THEN LET r == json_loads(c)
         IN  IF r.ok THEN LimitQuestions(AsList(r.val)) ELSE DefaultSubQuestions
    ELSE LimitQuestions(BulletItems(SplitLines(c)))

\* break_down_question: the sub-questions, or raised when the dict
\* comprehension of line 78 meets an unhashable sub-question
break_down_question(c) ==
    LET qs == ParseSubQuestions(c)
    IN  [raised |-> \E i \in DOMAIN qs : ~Hashable(qs[i]), sub_questions |-> qs]


(***************************************************************************)
(* usecase-019: the main graph break_down -> parallel_research ->          *)
(* synthesize -> END, and the thread pool of run_parallel_research.        *)
(***************************************************************************)
Tasks == 1..MaxItems

\* a research result: the dict a research_task returns; {} is NoResult
NoResult == [filled |-> FALSE, task |-> 0, execution_time |-> 0]
TaskResult(i, t) == [filled |-> TRUE, task |-> i, execution_time |-> t]

NoStats == [start_time |-> 0, total_time |-> -1, end_time |-> -1,
            sub_question_times |-> <<>>]

\* {q: {} for q in sub_questions}
EmptyResults(qs) == [q \in Range(qs) |-> NoResult]

\* results[question] = result
DictSet(d, k, v) == [x \in DOMAIN d \cup {k} |-> IF x = k THEN v ELSE d[x]]

NTasks == Len(sub_questions)
RunningPcs == {"queued", "research", "extract_key_points", "identify_sources"}
Running == {i \in Tasks : wpc[i] \in RunningPcs}
Finished == {i \in Tasks : wpc[i] \in {"done", "raised"}}

\* the initial_state of main and the idle pool
InitScatterState ==
    /\ mpc = "break_down"
    /\ sub_questions = <<>>
    /\ research_results = <<>>
    /\ results = <<>>
    /\ submitted = 0
    /\ wpc = [i \in Tasks |-> "idle"]
    /\ task_start = [i \in Tasks |-> 0]
    /\ task_result = [i \in Tasks |-> NoResult]
    /\ collected = {}
    /\ now = 0
    /\ execution_stats = NoStats
    /\ attempts = [i \in Tasks |-> 0]
    /\ max_workers = 0

\* the parsing nodes and the drivers are other programs
OthersIdle ==
    UNCHANGED <<node, response, node_out, script, qi, outcomes, invoked, printed, dpc,
                more_vars>>

\* time passes
Tick ==
    /\ OthersIdle
    /\ now < MaxClock
    /\ mpc \notin {"END", "raised"}
    /\ now' = now + 1
    /\ UNCHANGED <<content, mpc, sub_questions, research_results, results,
                   submitted, wpc, task_start, task_result, collected,
                   execution_stats, attempts, max_workers>>

\* node break_down: the model call answers content (or raises)
BreakDown ==
    /\ OthersIdle
    /\ mpc = "break_down"
    /\ \E llm_ok \in BOOLEAN :
         LET r == break_down_question(content)
         IN  IF llm_ok /\ ~r.raised
             THEN /\ sub_questions' = r.sub_questions
                  /\ research_results' = EmptyResults(r.sub_questions)
                  /\ execution_stats' = [NoStats EXCEPT !.start_time = now]
                  /\ mpc' = "parallel_research"
             ELSE /\ mpc' = "raised"
                  /\ UNCHANGED <<sub_questions, research_results, execution_stats>>
    /\ UNCHANGED <<content, results, submitted, wpc, task_start, task_result,
                   collected, now, attempts, max_workers>>

\* ThreadPoolExecutor(max_workers=len(sub_questions)): ValueError for 0
PoolSize(qs) == Len(qs)
CreatePool ==
    /\ OthersIdle
    /\ mpc = "parallel_research"
    /\ IF PoolSize(sub_questions) <= 0
       THEN mpc' = "raised" /\ UNCHANGED max_workers
       ELSE mpc' = "submitting" /\ max_workers' = PoolSize(sub_questions)
    /\ UNCHANGED <<content, sub_questions, research_results, results, submitted,
                   wpc, task_start, task_result, collected, now,
                   execution_stats, attempts>>

\* executor.submit(research_task, q) for the next q of sub_questions
Submit ==
    /\ OthersIdle
    /\ mpc = "submitting"
    /\ submitted < NTasks
    /\ submitted' = submitted + 1
    /\ wpc' = [wpc EXCEPT ![submitted + 1] = "queued"]
    /\ mpc' = IF submitted + 1 = NTasks THEN "collecting" ELSE "submitting"
    /\ UNCHANGED <<content, sub_questions, research_results, results,
                   task_start, task_result, collected, now, execution_stats,
                   attempts, max_workers>>

\* a pool thread takes task i: start_time = time.time() and the fresh
\* research_state
TaskStart(i) ==
    /\ OthersIdle
    /\ wpc[i] = "queued"
    /\ Cardinality({j \in Tasks : wpc[j] \in RunningPcs \ {"queued"}}) < max_workers
    /\ wpc' = [wpc EXCEPT ![i] = "research"]
    /\ task_start' = [task_start EXCEPT ![i] = now]
    /\ attempts' = [attempts EXCEPT ![i] = @ + 1]
    /\ UNCHANGED <<content, mpc, sub_questions, research_results, results,
                   submitted, task_result, collected, now, execution_stats,
                   max_workers>>

\* a node of the research graph ends: its model call answered, or raised
NextNode(pc) ==
    IF pc = "research" THEN "extract_key_points" ELSE "identify_sources"
TaskNode(i) ==
    /\ OthersIdle
    /\ wpc[i] \in {"research", "extract_key_points"}
    /\ \E llm_ok \in BOOLEAN :
         wpc' = [wpc EXCEPT ![i] = IF llm_ok THEN NextNode(wpc[i]) ELSE "raised"]
    /\ task_start' = IF wpc'[i] = "raised" THEN [task_start EXCEPT ![i] = 0] ELSE task_start
    /\ UNCHANGED <<content, mpc, sub_questions, research_results, results,
                   submitted, task_result, collected, now, execution_stats,
                   attempts, max_workers>>

\* (a variant that forgets to subtract start_time)
ExecutionTimeAbsolute(i) == now
\* time.time() - start_time, line 115
ExecutionTime(i) == now - task_start[i]

\* (a variant where the task also stores its result in the shared dict)
TaskWritesShared(i) ==
    IF wpc[i] \in {"research", "extract_key_points"} THEN {<<"research_state", i>>}
    ELSE IF wpc[i] = "identify_sources" THEN {<<"research_state", i>>, <<"results", 0>>}
    ELSE {}
\* the objects research_task i writes where it stands: its own
\* research_state dict and the result dict made from it
TaskWrites(i) ==
    IF wpc[i] \in {"research", "extract_key_points", "identify_sources"}
    THEN {<<"research_state", i>>} ELSE {}
\* the objects the dispatching thread writes where it stands
DispatcherWrites ==
    IF mpc = "submitting" THEN {<<"future_to_question", 0>>}
    ELSE IF mpc = "collecting" THEN {<<"results", 0>>}
    ELSE {}

\* identify_sources ends the research graph; research_task then sets
\* result["execution_time"] = time.time() - start_time and returns
TaskFinish(i) ==
    /\ OthersIdle
    /\ wpc[i] = "identify_sources"
    /\ \E llm_ok \in BOOLEAN :
         IF llm_ok
         THEN /\ wpc' = [wpc EXCEPT ![i] = "done"]
              /\ task_result' = [task_result EXCEPT ![i] = TaskResult(i, ExecutionTime(i))]
         ELSE /\ wpc' = [wpc EXCEPT ![i] = "raised"]
              /\ UNCHANGED task_result
    /\ task_start' = [task_start EXCEPT ![i] = 0]
    /\ UNCHANGED <<content, mpc, sub_questions, research_results, results,
                   submitted, collected, now, execution_stats, attempts,
                   max_workers>>

\* (a variant that swallows the task's exception)
FutureRaisesNever(i) == FALSE
\* future.result(): the task's return value, or its exception re-raised
FutureRaises(i) == wpc[i] = "raised"

\* (a variant that stops at the first completed future)
AsCompletedFirstOnly(done) == done # {}
\* as_completed has yielded every future
AsCompletedDone(done) == done = 1..NTasks

\* one turn of the as_completed loop: a finished future is yielded and
\* results[question] = result, or future.result() raises
Collect(i) ==
    /\ OthersIdle
    /\ mpc = "collecting"
    /\ i \in Finished \ collected
    /\ collected' = collected \cup {i}
    /\ IF FutureRaises(i)
       THEN mpc' = "unwinding" /\ UNCHANGED results
       ELSE /\ results' = DictSet(results, sub_questions[i], task_result[i])
            /\ mpc' = IF AsCompletedDone(collected') THEN "joining" ELSE "collecting"
    /\ UNCHANGED <<content, sub_questions, research_results, submitted, wpc,
                   task_start, task_result, now, execution_stats, attempts,
                   max_workers>>

\* (a variant that does not wait: shutdown(wait=False))
PoolIdleNoWait == TRUE
\* the end of the with block: executor.shutdown(wait=True)
PoolIdle == Running = {}

\* the with block ends normally; the node returns
\* {**original_state, "research_results": results}
Join ==
    /\ OthersIdle
    /\ mpc = "joining"
    /\ PoolIdle
    /\ research_results' = results
    /\ mpc' = "synthesize"
    /\ UNCHANGED <<content, sub_questions, results, submitted, wpc, task_start,
                   task_result, collected, now, execution_stats, attempts,
                   max_workers>>

\* the with block ends by the exception of future.result(), which then
\* leaves run_parallel_research and graph.invoke
Unwind ==
    /\ OthersIdle
    /\ mpc = "unwinding"
    /\ PoolIdle
    /\ mpc' = "raised"
    /\ UNCHANGED <<content, sub_questions, research_results, results, submitted,
                   wpc, task_start, task_result, collected, now,
                   execution_stats, attempts, max_workers>>

\* node synthesize: the model call, then the statistics; the clock may
\* advance between total_time and end_time
Synthesize ==
    /\ OthersIdle
    /\ mpc = "synthesize"
    /\ \E llm_ok \in BOOLEAN :
         IF llm_ok
         THEN /\ \E e \in now..MaxClock :
                   /\ execution_stats' =
                        [start_time |-> execution_stats.start_time,
                         total_time |-> now - execution_stats.start_time,
                         end_time |-> e,
                         sub_question_times |->
                            [q \in DOMAIN research_results |->
                                research_results[q].execution_time]]
                   /\ now' = e
              /\ mpc' = "END"
         ELSE mpc' = "raised" /\ UNCHANGED <<execution_stats, now>>
    /\ UNCHANGED <<content, sub_questions, research_results, results, submitted,
                   wpc, task_start, task_result, collected, attempts,
                   max_workers>>


(***************************************************************************)
(* The responses the break_down model call is given in the pipeline runs.  *)
(***************************************************************************)
\* a JSON array of k sub-questions, Q1..Qd repeated
QuestionArray(k, d) == DumpArray([i \in 1..k |-> Quote(QName(((i - 1) % d) + 1))])
Fenced(c) == <<Word, NL, FenceJson, NL>> \o c \o <<NL, Fence>>

ScatterContents ==
    {QuestionArray(k, k) : k \in 1..MaxItems}
    \cup {QuestionArray(2, 1), QuestionArray(3, 2), DumpArray(<<>>)}
    \cup {Fenced(QuestionArray(2, 2)), Fenced(<<StrA>>), Fenced(<<"{", "}">>)}
    \cup {DumpBullets(<<StrA, StrB>>), <<"[", Word, "]">>, <<Word>>}

\* the parsing nodes and the drivers are not running
IdleParse == node = "none" /\ response = <<>> /\ node_out = <<>>
IdleDriver ==
    /\ script = "none" /\ qi = 0 /\ outcomes = "none" /\ invoked = <<>>
    /\ printed = <<>> /\ dpc = "none"

Init ==
    /\ content \in ScatterContents
    /\ InitScatterState
    /\ IdleParse
    /\ IdleDriver
    /\ IdleMore

Next ==
    \/ BreakDown
    \/ CreatePool
    \/ Submit
    \/ \E i \in Tasks : TaskStart(i)
    \/ \E i \in Tasks : TaskNode(i)
    \/ \E i \in Tasks : TaskFinish(i)
    \/ \E i \in Tasks : Collect(i)
    \/ Join
    \/ Unwind
    \/ Synthesize

Spec == Init /\ [][Next]_vars

\* the same pipeline with the wall clock advancing, on the responses that
\* yield at most MaxTimedTasks sub-questions or the three default ones
TimedContents ==
    {c \in ScatterContents :
        \/ Len(ParseSubQuestions(c)) <= MaxTimedTasks
        \/ ParseSubQuestions(c) = DefaultSubQuestions}
InitTimed ==
    /\ content \in TimedContents
    /\ InitScatterState
    /\ IdleParse
    /\ IdleDriver
    /\ IdleMore
NextTimed == Tick \/ Next
SpecTimed == InitTimed /\ [][NextTimed]_vars


(***************************************************************************)
(* The nodes that parse a structured model response.  A node's outcome is  *)
(* whether it raised, the value it stored and the message log it returned. *)
(***************************************************************************)
Returned(v, log) == [raised |-> FALSE, val |-> v, log |-> log]
Raised == [raised |-> TRUE, val |-> JStr(""), log |-> <<>>]
NotRun == Returned(JStr(""), <<>>)

Strs(xs) == JList([i \in DOMAIN xs |-> JStr(xs[i])])

\* usecase-011 problem_breakdown
DefaultSteps011 ==
    Strs(<<"Understand the problem", "Solve systematically", "Verify answer">>)
\* (a variant without the isinstance check of line 34)
problem_breakdown_any(c) ==
    LET r == json_loads(c)
    IN  Returned(IF r.ok THEN r.val ELSE DefaultSteps011, <<>>)
problem_breakdown(c) ==
    LET r == json_loads(c)
    IN  Returned(IF r.ok /\ r.val.t = "list" THEN r.val ELSE DefaultSteps011, <<>>)

\* usecase-012 break_down_complex_problem
DefaultSteps012 ==
    Strs(<<"Understand the problem", "Break into sub-problems",
           "Solve each part", "Combine results">>)
break_down_complex_problem(c) ==
    LET r == json_loads(c)
    IN  Returned(IF r.ok /\ r.val.t = "list" THEN r.val ELSE DefaultSteps012, <<>>)

\* usecase-013 assess_solution: quality_score, quality_assessment and
\* improvement_suggestions
Assessment(score, text, suggestions) ==
    JDict(<<"quality_score", "quality_assessment", "improvement_suggestions">>,
          <<score, text, suggestions>>)
DefaultAssessment ==
    Assessment(JNum("5.0"), JStr("Unable to parse assessment"),
               Strs(<<"Improve overall solution">>))
assess_solution(c) ==
    LET r == json_loads(c)
        \* result.get raises AttributeError unless result is a dict
        isdict == r.ok /\ r.val.t = "dict"
        score == DictGet(r.val, "score", JNum("5.0"))
        text == DictGet(r.val, "assessment", JStr("No assessment provided"))
        sugg == DictGet(r.val, "suggestions", Strs(<<"No suggestions provided">>))
    IN  Returned(IF isdict /\ FloatOk(score)
                 THEN Assessment(score, text,
                                 IF sugg.t = "list" THEN sugg ELSE JList(<<sugg>>))
                 ELSE DefaultAssessment, <<>>)

\* usecase-014: the text the agents decode, fenced or whole
AgentJson(c) == json_loads(IF HasFence(c) THEN FencedPart(c) ELSE c)

Message(from, text) == [from |-> from, content |-> text]

\* researcher_agent
DefaultFindings ==
    JList(<<JDict(<<"topic", "key_points", "relevance">>,
                  <<JStr("General information"),
                    Strs(<<"Unable to parse structured findings">>),
                    JStr("Directly related to query")>>)>>)
researcher_agent(c, messages) ==
    LET r == AgentJson(c)
        findings == IF ~r.ok THEN DefaultFindings
                    ELSE IF r.val.t = "list" THEN r.val ELSE JList(<<r.val>>)
    IN  Returned(findings,
                 Append(messages,
                        Message("Researcher", "I've gathered information on "
                                \o ToString(PyLen(findings)) \o " topics")))

\* analyst_agent: analysis.get and len run outside the try block
DefaultAnalysis ==
    JDict(<<"main_insights", "patterns", "controversies", "knowledge_gaps">>,
          <<Strs(<<"Analysis could not be structured properly">>),
            JList(<<>>), JList(<<>>), JList(<<>>)>>)
AnalystCount(analysis) == DictGet(analysis, "main_insights", JList(<<>>))
analyst_agent(c, messages) ==
    LET r == AgentJson(c)
        analysis == IF r.ok THEN r.val ELSE DefaultAnalysis
    IN  IF analysis.t # "dict" \/ ~LenOk(AnalystCount(analysis)) THEN Raised
        ELSE Returned(analysis,
                      Append(messages,
                             Message("Analyst", "I've analyzed the research and identified "
                                     \o ToString(PyLen(AnalystCount(analysis)))
                                     \o " key insights.")))

\* critic_agent: critique.get and len run outside the try block
DefaultCritique ==
    JDict(<<"strengths", "weaknesses", "potential_biases", "improvement_suggestions">>,
          <<Strs(<<"Some valuable information was gathered">>),
            Strs(<<"Critique could not be structured properly">>),
            JList(<<>>),
            Strs(<<"Consider gathering more diverse perspectives">>)>>)
critic_agent(c, messages) ==
    LET r == AgentJson(c)
        critique == IF r.ok THEN r.val ELSE DefaultCritique
        weak == DictGet(critique, "weaknesses", JList(<<>>))
        sugg == DictGet(critique, "improvement_suggestions", JList(<<>>))
    IN  IF critique.t # "dict" \/ ~LenOk(weak) \/ ~LenOk(sugg) THEN Raised
        ELSE Returned(critique,
                      Append(messages,
                             Message("Critic", "I've identified " \o ToString(PyLen(weak))
                                     \o " weaknesses and have " \o ToString(PyLen(sugg))
                                     \o " suggestions for improvement.")))


\* usecase-017 create_outline
DefaultOutline ==
    Strs(<<"Introduction to the topic", "Main point 1", "Main point 2",
           "Conclusion and key takeaways">>)
\* [line.strip("- ").strip() for line in lines if line.strip()]
RECURSIVE OutlineLines(_)
OutlineLines(lines) ==
    IF lines = <<>> THEN <<>>
    ELSE LET line == Head(lines)
             item == Strip(RStripChars(LStripChars(line, {Dash, SP}), {Dash, SP}))
         IN  (IF Strip(line) # <<>> THEN <<JStr(Text(item))>> ELSE <<>>)
             \o OutlineLines(Tail(lines))
\* (a variant whose except clause keeps the lines of the response)
create_outline_nofallback(c) ==
    LET r == json_loads(IF HasFence(c) THEN FencedPart(c) ELSE c)
    IN  Returned(IF (HasFence(c) \/ Bracketed(c)) /\ r.ok THEN r.val
                 ELSE JList(OutlineLines(SplitLines(c))), <<>>)
create_outline(c) ==
    IF HasFence(c)
    THEN LET r == json_loads(FencedPart(c))
         IN  Returned(IF r.ok THEN r.val ELSE DefaultOutline, <<>>)
    ELSE IF Bracketed(c)
    THEN LET r == json_loads(c)
         IN  Returned(IF r.ok THEN r.val ELSE DefaultOutline, <<>>)
    ELSE Returned(JList(OutlineLines(SplitLines(c))), <<>>)

\* usecase-019 break_down_question, as a node outcome
break_down_node(c) ==
    LET r == break_down_question(c)
    IN  IF r.raised THEN Raised ELSE Returned(JList(r.sub_questions), <<>>)

\* usecase-020 generate_document_content: the sections of the new version
MaxFallbackChars == 500
Section(title, text, order) ==
    JDict(<<"title", "content", "order">>, <<title, text, order>>)
Order(n) == JNum(ToString(n))

\* response.content[:500]; the responses of the model are shorter
FirstChars(c) == IF Len(Text(c)) <= MaxFallbackChars THEN Text(c) ELSE "(cut)"

FallbackSections(c) ==
    JList(<<Section(JStr("Introduction"),
                    JStr("This document addresses the topic: PROMPT"), Order(1)),
            Section(JStr("Main Content"), JStr(FirstChars(c)), Order(2)),
            Section(JStr("Conclusion"), JStr("Summary and next steps."), Order(3))>>)

\* "\n".join(section_content)
RECURSIVE JoinLines(_)
JoinLines(lines) ==
    IF lines = <<>> THEN ""
    ELSE IF Len(lines) = 1 THEN Text(lines[1])
    ELSE Text(lines[1]) \o NL \o JoinLines(Tail(lines))

\* lines 216-249: the sections read from "#" headings; cur is the title of
\* the open section ("" when none), body its lines so far
IsHeading(line) == Strip(line) # <<>> /\ Strip(line)[1] = Hash
HeadingTitle(line) == Text(Strip(LStripChars(Strip(line), {Hash})))
TextSection(cur, body, n) == Section(JStr(cur), JStr(JoinLines(body)), Order(n + 1))
RECURSIVE HeadingSections(_, _, _, _)
HeadingSections(lines, acc, cur, body) ==
    IF lines = <<>>
    THEN IF cur # "" /\ body # <<>>
         THEN Append(acc, TextSection(cur, body, Len(acc))) ELSE acc
    ELSE LET line == Head(lines)
         IN  IF IsHeading(line)
             THEN IF cur # ""
                  THEN HeadingSections(Tail(lines),
                                       Append(acc, TextSection(cur, body, Len(acc))),
                                       HeadingTitle(line), <<>>)
                  ELSE HeadingSections(Tail(lines), acc, HeadingTitle(line), body)
             ELSE HeadingSections(Tail(lines), acc, cur,
                                  IF cur # "" THEN Append(body, line) ELSE body)

\* Section(...) of one element of sections_data: .get needs a dict, and
\* the model validates title: str, content: str, order: int
SectionOk(d) ==
    /\ d.t = "dict"
    /\ DictGet(d, "title", JStr("")).t = "str"
    /\ DictGet(d, "content", JStr("")).t = "str"
    /\ DictGet(d, "order", Order(0)).t = "num"
MakeSection(d, i) ==
    Section(DictGet(d, "title", JStr("Section " \o ToString(i))),
            DictGet(d, "content", JStr("No content provided")),
            DictGet(d, "order", Order(i)))

\* lines 206-291
SectionsFrom(data, c) ==
    LET xs == AsList(data)
    IN  IF \A i \in DOMAIN xs : SectionOk(xs[i])
        THEN JList([i \in DOMAIN xs |-> MakeSection(xs[i], i)])
        ELSE FallbackSections(c)
generate_document_content(c) ==
    IF HasFence(c)
    THEN LET r == json_loads(FencedPart(c))
         IN  Returned(IF r.ok THEN SectionsFrom(r.val, c) ELSE FallbackSections(c), <<>>)
    ELSE IF Bracketed(c)
    THEN LET r == json_loads(c)
         IN  Returned(IF r.ok THEN SectionsFrom(r.val, c) ELSE FallbackSections(c), <<>>)
    ELSE Returned(SectionsFrom(JList(HeadingSections(SplitLines(c), <<>>, "", <<>>)), c), <<>>)


(***************************************************************************)
(* The responses given to the parsing nodes: every token sequence up to    *)
(* MaxLen, and the JSON texts, fenced texts, broken texts, bullet lists    *)
(* and headed texts a model answers with.                                  *)
(***************************************************************************)
TokenSeqs(n) == UNION {[1..k -> Tok] : k \in 0..n}

Questions(k) == Strs([i \in 1..k |-> QName(i)])
SampleValues ==
    {Questions(k) : k \in 0..MaxItems}
    \cup {JStr("A"), JNum(Num), Strs(<<"Q1", "Q1">>), JList(<<Strs(<<"A">>)>>)}
    \cup {JDict(<<"score", "assessment", "suggestions">>,
                <<JNum(Num), JStr("A"), Strs(<<"A", "B">>)>>),
          JDict(<<"score", "assessment">>, <<JStr("A"), JStr("B")>>),
          JDict(<<"score", "suggestions">>, <<JNum(Num), JStr("A")>>),
          JDict(<<"assessment">>, <<JStr("A")>>)}
    \cup {JDict(<<"main_insights", "weaknesses", "improvement_suggestions">>,
                <<Strs(<<"A", "B">>), Strs(<<"A">>), JList(<<>>)>>),
          JDict(<<"main_insights">>, <<JNum(Num)>>),
          JDict(<<"weaknesses">>, <<JNum(Num)>>),
          JDict(<<"main_insights", "weaknesses">>, <<JStr("A"), JStr("B")>>)}
    \cup {JList(<<JDict(<<"title", "content", "order">>, <<JStr("A"), JStr("B"), JNum(Num)>>),
                  JDict(<<"title">>, <<JStr("B")>>)>>),
          JList(<<JDict(<<"title">>, <<JNum(Num)>>)>>),
          JDict(<<"title", "content">>, <<JStr("A"), JStr("B")>>)}

\* a text cut before its last token
Cut(c) == SubSeq(c, 1, Len(c) - 1)

SampleTexts ==
    {Dump(v) : v \in SampleValues}
    \cup {Fenced(Dump(v)) : v \in SampleValues}
    \cup {Cut(Dump(v)) : v \in SampleValues}
    \cup {Fenced(Cut(Dump(v))) : v \in SampleValues}
    \cup {DumpBullets(<<StrA, StrB>>), DumpBullets(<<StrA, StrA>>),
          <<Hash, SP, Word, NL, Word, NL, StrA, NL, Hash, Hash, Word, NL, StrB>>,
          <<Word, NL, Hash, NL, Word, NL, Hash, Word, NL>>}

Contents == TokenSeqs(MaxLen) \cup SampleTexts \cup ScatterContents

Nodes == {"problem_breakdown", "break_down_complex_problem", "assess_solution",
          "researcher_agent", "analyst_agent", "critic_agent",
          "create_outline", "break_down_question", "generate_document_content"}

\* the pipeline of usecase-019 and the drivers are not running
IdleScatter ==
    /\ content = <<>>
    /\ mpc = "none"
    /\ sub_questions = <<>>
    /\ research_results = <<>>
    /\ results = <<>>
    /\ submitted = 0
    /\ wpc = [i \in Tasks |-> "idle"]
    /\ task_start = [i \in Tasks |-> 0]
    /\ task_result = [i \in Tasks |-> NoResult]
    /\ collected = {}
    /\ now = 0
    /\ execution_stats = NoStats
    /\ attempts = [i \in Tasks |-> 0]
    /\ max_workers = 0

InitParse ==
    /\ response \in Contents
    /\ node = "none"
    /\ node_out = NotRun
    /\ IdleScatter
    /\ IdleDriver
    /\ IdleMore

\* the node n runs on the response; out is what it returns
RunNode(n, out) ==
    /\ node = "none"
    /\ node' = n
    /\ node_out' = out
    /\ UNCHANGED <<response, scatter_vars, driver_vars, more_vars>>

ProblemBreakdown == RunNode("problem_breakdown", problem_breakdown(response))
BreakDownComplexProblem ==
    RunNode("break_down_complex_problem", break_down_complex_problem(response))
AssessSolution == RunNode("assess_solution", assess_solution(response))
ResearcherAgent == RunNode("researcher_agent", researcher_agent(response, <<>>))
AnalystAgent == RunNode("analyst_agent", analyst_agent(response, <<>>))
CriticAgent == RunNode("critic_agent", critic_agent(response, <<>>))
CreateOutline == RunNode("create_outline", create_outline(response))
BreakDownQuestion == RunNode("break_down_question", break_down_node(response))
GenerateDocumentContent ==
    RunNode("generate_document_content", generate_document_content(response))

NextParse ==
    \/ ProblemBreakdown
    \/ BreakDownComplexProblem
    \/ AssessSolution
    \/ ResearcherAgent
    \/ AnalystAgent
    \/ CriticAgent
    \/ CreateOutline
    \/ BreakDownQuestion
    \/ GenerateDocumentContent

SpecParse == InitParse /\ [][NextParse]_vars


(***************************************************************************)
(* The fixed-query drivers: step2.py and main of usecase-001..004 and      *)
(* 006..010.  Each loops over its queries list and calls agent.invoke.     *)
(***************************************************************************)
Scripts == {"step2", "usecase-001", "usecase-002", "usecase-003", "usecase-004",
            "usecase-006", "usecase-007", "usecase-008", "usecase-009",
            "usecase-010"}

\* len(queries) of each script
NumQueries(sc) ==
    IF sc = "usecase-004" THEN 6
    ELSE IF sc = "usecase-007" THEN 7
    ELSE IF sc \in {"usecase-008", "usecase-009", "usecase-010"} THEN 5
    ELSE 4

\* what agent.invoke does: it returns, or raises an exception of one of
\* these classes; TypeError stands for every Exception class that is none
\* of the five step2.py names
Outcomes == {"ok", "ValueError", "KeyError", "ConnectionError", "TimeoutError",
             "RuntimeError", "TypeError"}

\* the except clause that catches exception e in the script, "" for none
\* print("-" * 50) ends each turn of the usecase loops
Rule(sc) == IF sc = "step2" THEN <<>> ELSE <<"rule">>

Handler(sc, e) ==
    IF sc = "step2"
    THEN IF e \in {"ValueError", "KeyError"} THEN "input error"
         ELSE IF e \in {"ConnectionError", "TimeoutError"} THEN "network error"
         ELSE IF e = "RuntimeError" THEN "runtime error"
         ELSE ""
    ELSE "Error"

InitDriver ==
    /\ script \in Scripts
    /\ qi = 0
    /\ outcomes = "none"
    /\ invoked = [q \in 1..NumQueries(script) |-> 0]
    /\ printed = <<>>
    /\ dpc = "loop"
    /\ IdleScatter
    /\ IdleParse
    /\ IdleMore

\* one turn of the for loop: the question is printed, agent.invoke is
\* called, and the answer or the error string is printed; an exception no
\* clause catches leaves the loop and the script
RunQuery ==
    /\ dpc = "loop"
    /\ qi < NumQueries(script)
    /\ qi' = qi + 1
    /\ invoked' = [invoked EXCEPT ![qi + 1] = @ + 1]
    /\ \E o \in Outcomes :
         /\ outcomes' = o
         /\ IF o = "ok"
            THEN printed' = printed \o <<"question", "answer">> \o Rule(script) /\ dpc' = "loop"
            ELSE IF Handler(script, o) # ""
            THEN /\ printed' = printed \o <<"question", Handler(script, o)>> \o Rule(script)
                 /\ dpc' = "loop"
            ELSE printed' = Append(printed, "question") /\ dpc' = "crashed"
    /\ UNCHANGED <<script, scatter_vars, parse_vars, more_vars>>

\* the list is exhausted: the script ends normally
EndOfQueries ==
    /\ dpc = "loop"
    /\ qi = NumQueries(script)
    /\ dpc' = "done"
    /\ UNCHANGED <<script, qi, outcomes, invoked, printed, scatter_vars, parse_vars,
                   more_vars>>

NextDriver == RunQuery \/ EndOfQueries

SpecDriver == InitDriver /\ [][NextDriver]_vars


(***************************************************************************)
(* Claims about the scatter/gather pipeline of usecase-019.                *)
(***************************************************************************)
AfterResearch == mpc \in {"synthesize", "END"}

\* C1 as stated: when run_parallel_research has returned, the keys of
\* research_results are the sub-questions and there are as many entries as
\* sub-questions were generated.
C1_EntryCountEqualsQuestionCount ==
    AfterResearch =>
        /\ DOMAIN research_results = Range(sub_questions)
        /\ Cardinality(DOMAIN research_results) = Len(sub_questions)

\* C1 amended: when run_parallel_research has returned, the keys of
\* research_results are exactly the sub-questions, every entry is the
\* result of a completed task that researched its key, and the number of
\* entries is the number of distinct sub-questions.
C1_EntryPerDistinctQuestion ==
    AfterResearch =>
        /\ DOMAIN research_results = Range(sub_questions)
        /\ Cardinality(DOMAIN research_results) = Cardinality(Range(sub_questions))
        /\ \A q \in DOMAIN research_results :
              /\ research_results[q].filled
              /\ research_results[q].task \in 1..NTasks
              /\ sub_questions[research_results[q].task] = q
              /\ wpc[research_results[q].task] = "done"

\* a run over three sub-questions, two of them equal, has ended with two
\* entries
C1_Witness ==
    /\ mpc = "END"
    /\ Len(sub_questions) = 3
    /\ Cardinality(DOMAIN research_results) = 2

\* C2: run_parallel_research is left (by return or by exception) only when
\* no submitted research_task is still queued or running, and synthesize
\* starts only after every task has completed.
C2_JoinBarrier ==
    /\ mpc \in {"synthesize", "END", "raised"} => Running = {}
    /\ AfterResearch => \A i \in 1..NTasks : wpc[i] = "done"

\* synthesize is about to run after five tasks
C2_Witness ==
    /\ mpc = "synthesize"
    /\ NTasks = MaxSubQuestions
    /\ \A i \in 1..NTasks : wpc[i] = "done"

C4_TotalTimeBounds ==
    mpc = "END" =>
        /\ execution_stats.total_time >= 0
        /\ DOMAIN execution_stats.sub_question_times = Range(sub_questions)
        /\ \A q \in DOMAIN execution_stats.sub_question_times :
              /\ execution_stats.sub_question_times[q] >= 0
              /\ execution_stats.total_time >= execution_stats.sub_question_times[q]
        /\ \A i \in 1..NTasks :
              execution_stats.total_time >= task_result[i].execution_time

\* a run in which a sub-task took time and the whole run took longer
C4_Witness ==
    /\ mpc = "END"
    /\ \E q \in DOMAIN execution_stats.sub_question_times :
          /\ execution_stats.sub_question_times[q] > 0
          /\ execution_stats.total_time > execution_stats.sub_question_times[q]

\* C5: once a research sub-task has raised, run_parallel_research never
\* returns: synthesize is not reached and research_results stays as
\* break_down left it; and no sub-task is ever started twice.
C5_ExceptionSurfaces ==
    /\ (\E i \in Tasks : wpc[i] = "raised") =>
          /\ mpc \notin {"joining", "synthesize", "END"}
          /\ research_results = EmptyResults(sub_questions)
    /\ \A i \in Tasks : attempts[i] <= 1

\* the exception has left run_parallel_research although another task's
\* result had already been stored in the local results
C5_Witness ==
    /\ mpc = "raised"
    /\ \E i \in Tasks : wpc[i] = "raised" /\ i \in collected
    /\ \E j \in Tasks : wpc[j] = "done" /\ j \in collected

\* C6: one task is submitted per element of sub_questions to a pool of
\* that many workers, every response yields at most five sub-questions,
\* and at most five sub-tasks are queued or running.
C6_AtMostFiveTasks ==
    /\ Len(sub_questions) <= MaxSubQuestions
    /\ Cardinality(Running) <= MaxSubQuestions
    /\ submitted <= NTasks
    /\ \A i \in Tasks : (wpc[i] # "idle") <=> (i <= submitted)
    /\ \A i \in Tasks : attempts[i] <= 1
    /\ mpc \in {"submitting", "collecting", "joining", "unwinding", "synthesize", "END"}
          => max_workers = NTasks
    /\ mpc \in {"collecting", "joining", "unwinding", "synthesize", "END"}
          => submitted = NTasks
    /\ mpc = "break_down"
          => \A c \in Contents : Len(break_down_question(c).sub_questions) <= MaxSubQuestions

\* a response of six sub-questions: five tasks run at once
C6_Witness ==
    /\ Len(json_loads(content).val.items) > MaxSubQuestions
    /\ Cardinality({i \in Tasks : wpc[i] \in {"research", "extract_key_points",
                                               "identify_sources"}}) = MaxSubQuestions


(***************************************************************************)
(* Claims about the parsing nodes.                                         *)
(***************************************************************************)
\* the response is not JSON, or is JSON of another type than t
NotJsonOf(c, t) == LET r == json_loads(c) IN ~r.ok \/ r.val.t # t

\* C7: for every response that is not valid JSON or is JSON of the wrong
\* type (no list for the step lists, no object for the assessment), the
\* node returns exactly its hard-coded default and does not raise.
C7_MalformedGivesDefault ==
    /\ node = "problem_breakdown" /\ NotJsonOf(response, "list")
          => node_out = Returned(DefaultSteps011, <<>>)
    /\ node = "break_down_complex_problem" /\ NotJsonOf(response, "list")
          => node_out = Returned(DefaultSteps012, <<>>)
    /\ node = "assess_solution" /\ NotJsonOf(response, "dict")
          => node_out = Returned(DefaultAssessment, <<>>)
    /\ node \in {"problem_breakdown", "break_down_complex_problem", "assess_solution"}
          => ~node_out.raised

\* assess_solution was given a JSON array and stored its default
C7_Witness ==
    /\ node = "assess_solution"
    /\ json_loads(response).ok
    /\ json_loads(response).val.t = "list"
    /\ json_loads(response).val.items # <<>>
    /\ node_out.val = DefaultAssessment

\* the node applies the JSON decoder to the response (to its fenced part,
\* or to the whole of a bracketed response), and the decoder fails
DecodeFails(c) ==
    \/ HasFence(c) /\ ~json_loads(FencedPart(c)).ok
    \/ ~HasFence(c) /\ Bracketed(c) /\ ~json_loads(c).ok

Unexpected(n, c) ==
    LET r == AgentJson(c)
    IN  ~r.ok \/ r.val.t # (IF n = "researcher_agent" THEN "list" ELSE "dict")

\* C9: for every response that does not parse into the expected structure,
\* researcher_agent, analyst_agent and critic_agent complete without
\* raising and append their message to the log.
C9_AgentsNeverRaise ==
    node \in {"researcher_agent", "analyst_agent", "critic_agent"}
        /\ Unexpected(node, response)
        => ~node_out.raised /\ Len(node_out.log) = 1

(***************************************************************************)
(* Claims about the fixed-query drivers.                                   *)
(***************************************************************************)
\* C10: whatever agent.invoke returns or raises, the driver invokes the
\* agent once per query, prints an error string for a failed query, goes
\* on with the next query and ends normally after the last one.
C10_DriverCompletes ==
    /\ dpc # "crashed"
    /\ \A q \in DOMAIN invoked : invoked[q] = (IF q <= qi THEN 1 ELSE 0)
    /\ dpc = "done" => qi = NumQueries(script)
    /\ outcomes \notin {"ok", "none"}
          => Handler(script, outcomes) \in Range(printed) \ {""}


(***************************************************************************)
(* main of the graph scripts (usecase-011..017, 019, 020): the argument    *)
(* check, the graph built and invoked once, the results printed.           *)
(***************************************************************************)
GraphScripts == {"usecase-011", "usecase-012", "usecase-013", "usecase-014",
                 "usecase-015", "usecase-016", "usecase-017", "usecase-019",
                 "usecase-020"}

\* most positional arguments given on the command line
MaxArgs == 2
\* most nodes run by one graph.invoke
MaxNodeRuns == 4

\* the placeholder of the usage line of each script
ArgName(sc) ==
    IF sc \in {"usecase-011", "usecase-012", "usecase-013"} THEN "<problem_statement>"
    ELSE IF sc \in {"usecase-014", "usecase-015"} THEN "<query>"
    ELSE IF sc = "usecase-016" THEN "<input_text>"
    ELSE IF sc = "usecase-017" THEN "<content_prompt>"
    ELSE IF sc = "usecase-019" THEN "<research_query>"
    ELSE "<document_prompt>"
\* print('Usage: python main.py "<...>"')
Usage(sc) == [label |-> "Usage: ", syntax |-> "python main.py", arg |-> ArgName(sc)]

\* (a variant that never asks for the argument)
NeedsUsageNever(n) == FALSE
\* len(sys.argv) < 2
NeedsUsage(n) == n + 1 < 2

\* the except clause around graph.invoke in main: no main has one
MainCatches(sc) == FALSE

InitMain ==
    /\ cli_script \in GraphScripts
    /\ argc \in 0..MaxArgs
    /\ cpc = "start"
    /\ exit_status = -1
    /\ stdout = <<>>
    /\ graph_built = FALSE
    /\ model_calls = 0
    /\ IdleScatter
    /\ IdleParse
    /\ IdleDriver
    /\ IdleCalc
    /\ IdleLog
    /\ IdleRest

\* if len(sys.argv) < 2: print usage; sys.exit(1)
CheckArgs ==
    /\ cpc = "start"
    /\ IF NeedsUsage(argc)
       THEN /\ stdout' = Append(stdout, Usage(cli_script))
            /\ exit_status' = 1
            /\ cpc' = "exited"
       ELSE /\ cpc' = "args_ok"
            /\ UNCHANGED <<stdout, exit_status>>
    /\ UNCHANGED <<cli_script, argc, graph_built, model_calls,
                   scatter_vars, parse_vars, driver_vars, calc_vars, log_vars, rest_vars>>

\* graph = create_..._graph().compile(); sys.argv[1] is read before
CompileGraph ==
    /\ cpc = "args_ok"
    /\ IF argc >= 1
       THEN graph_built' = TRUE /\ cpc' = "invoking" /\ UNCHANGED exit_status
       ELSE graph_built' = FALSE /\ cpc' = "traceback" /\ exit_status' = 1
    /\ UNCHANGED <<cli_script, argc, stdout, model_calls,
                   scatter_vars, parse_vars, driver_vars, calc_vars, log_vars, rest_vars>>

\* graph.invoke runs one more node, which calls the model; the call
\* answers or raises, and an exception leaves graph.invoke
RunGraphNode ==
    /\ cpc = "invoking"
    /\ model_calls < MaxNodeRuns
    /\ model_calls' = model_calls + 1
    /\ \E raises \in BOOLEAN :
         IF ~raises
         THEN UNCHANGED <<cpc, stdout, exit_status>>
         ELSE IF MainCatches(cli_script)
         THEN /\ stdout' = Append(stdout, [label |-> "Error", syntax |-> "", arg |-> ""])
              /\ exit_status' = 1
              /\ cpc' = "exited"
         ELSE /\ cpc' = "traceback"
              /\ exit_status' = 1
              /\ UNCHANGED stdout
    /\ UNCHANGED <<cli_script, argc, graph_built, scatter_vars, parse_vars, driver_vars, calc_vars, log_vars, rest_vars>>

\* graph.invoke returns; main prints the results and ends
InvokeReturns ==
    /\ cpc = "invoking"
    /\ stdout' = Append(stdout, [label |-> "RESULTS", syntax |-> "", arg |-> ""])
    /\ exit_status' = 0
    /\ cpc' = "exited"
    /\ UNCHANGED <<cli_script, argc, graph_built, model_calls,
                   scatter_vars, parse_vars, driver_vars, calc_vars, log_vars, rest_vars>>

NextMain == CheckArgs \/ CompileGraph \/ RunGraphNode \/ InvokeReturns

SpecMain == InitMain /\ [][NextMain]_vars

\* C11: an exception raised during graph.invoke is caught in main, which
\* prints an error string and exits: the exception never leaves main.
C11_InvokeErrorCaught ==
    /\ cpc # "traceback"
    /\ cpc = "exited" /\ exit_status # 0 /\ ~NeedsUsage(argc)
          => stdout # <<>> /\ stdout[Len(stdout)].label = "Error"

\* C12: main run with no positional argument prints the usage line with
\* the invocation syntax and exits with a non-zero status, and neither
\* builds the graph nor calls the model.
C12_NoArgumentUsage ==
    /\ argc = 0 /\ cpc \notin {"none", "start"} =>
          /\ cpc = "exited"
          /\ exit_status # 0
          /\ stdout = <<Usage(cli_script)>>
          /\ stdout[1].syntax = "python main.py"
          /\ ~graph_built
          /\ model_calls = 0
    /\ argc = 0 => cpc \notin {"args_ok", "invoking", "traceback"}

\* a script run without argument has exited
C12_Witness ==
    /\ argc = 0
    /\ cpc = "exited"
    /\ cli_script = "usecase-020"


(***************************************************************************)
(* The calculator tools: step2.calculator, calculator of usecase-001 and   *)
(* usecase-004, calculate of usecase-015.  An expression is its sequence   *)
(* of tokens (integer literals and operators) and whether the tokens are   *)
(* separated by blanks.  A number is the fraction n/d in lowest terms; a   *)
(* float is modelled by the number it approximates.                        *)
(***************************************************************************)
\* largest integer literal of an expression
MaxNum == 2
\* most operators of an expression
MaxOps == 2

Ops == {"+", "-", "*", "/"}
NumTok(k) == [k |-> "num", n |-> k]
OpTok(o) == [k |-> o, n |-> 0]

Abs(x) == IF x < 0 THEN -x ELSE x
RECURSIVE Gcd(_, _)
Gcd(a, b) == IF b = 0 THEN a ELSE Gcd(b, a % b)

\* a number, or the ZeroDivisionError raised instead
Number(n, d, f) ==
    LET g == Gcd(Abs(n), Abs(d))
        sg == IF d < 0 THEN -1 ELSE 1
    IN  [ok |-> TRUE, n |-> sg * (n \div g), d |-> sg * (d \div g), float |-> f]
ZeroDivisionError == [ok |-> FALSE, n |-> 0, d |-> 1, float |-> FALSE]
Literal(k) == Number(k, 1, FALSE)
\* float(x)
Float(v) == [v EXCEPT !.float = TRUE]

\* the binary operators of Python on int and float: / is true division
Apply(o, a, b) ==
    IF ~a.ok \/ ~b.ok THEN ZeroDivisionError
    ELSE IF o = "+" THEN Number(a.n * b.d + b.n * a.d, a.d * b.d, a.float \/ b.float)
    ELSE IF o = "-" THEN Number(a.n * b.d - b.n * a.d, a.d * b.d, a.float \/ b.float)
    ELSE IF o = "*" THEN Number(a.n * b.n, a.d * b.d, a.float \/ b.float)
    ELSE IF b.n = 0 THEN ZeroDivisionError
    ELSE Number(a.n * b.d, a.d * b.n, TRUE)

\* (a variant that applies the operators from left to right)
RECURSIVE EvalLeftToRight(_, _, _)
EvalLeftToRight(toks, i, acc) ==
    IF i > Len(toks) THEN acc
    ELSE EvalLeftToRight(toks, i + 2, Apply(toks[i].k, acc, Literal(toks[i + 1].n)))
eval_flat(toks) == EvalLeftToRight(toks, 2, Literal(toks[1].n))

\* eval(expression): Python's grammar, a sum of terms, a term a product
\* of literals, both left-associative; i is the position of the next
\* operator and acc the value read so far
RECURSIVE EvalTerm(_, _, _)
EvalTerm(toks, i, acc) ==
    IF i <= Len(toks) /\ toks[i].k \in {"*", "/"}
    THEN EvalTerm(toks, i + 2, Apply(toks[i].k, acc, Literal(toks[i + 1].n)))
    ELSE [val |-> acc, next |-> i]
RECURSIVE EvalSum(_, _, _)
EvalSum(toks, i, acc) ==
    IF i > Len(toks) THEN acc
    ELSE LET t == EvalTerm(toks, i + 2, Literal(toks[i + 1].n))
         IN  EvalSum(toks, t.next, Apply(toks[i].k, acc, t.val))
eval(toks) ==
    LET t == EvalTerm(toks, 2, Literal(toks[1].n))
    IN  EvalSum(toks, t.next, t.val)

\* what a tool returns: a number, a text holding a number, an error text
Value(v) == [kind |-> "value", label |-> "", n |-> v.n, d |-> v.d, float |-> v.float]
ResultText(v) ==
    [kind |-> "text", label |-> "Result: ", n |-> v.n, d |-> v.d, float |-> v.float]
ErrorText(msg) == [kind |-> "error", label |-> msg, n |-> 0, d |-> 1, float |-> FALSE]

\* expression.split(): the tokens when blanks separate them, else one part
Parts(e) == IF e.spaced THEN e.toks ELSE <<e.toks>>

\* step2.calculator: exactly "left op right"
step2_calculator(e) ==
    LET parts == Parts(e)
    IN  IF Len(parts) # 3 THEN ErrorText("format: write it like '2 + 2'")
        ELSE LET left == Float(Literal(parts[1].n))
                 right == Float(Literal(parts[3].n))
             IN  IF parts[2].k = "/" /\ right.n = 0
                 THEN ErrorText("division by zero is not possible")
                 ELSE Value(Apply(parts[2].k, left, right))

\* (a variant whose except clause misses ZeroDivisionError)
calculator_001_uncaught(e) ==
    LET v == eval(e.toks)
    IN  IF v.ok THEN Value(v)
        ELSE [kind |-> "raised", label |-> "", n |-> 0, d |-> 1, float |-> FALSE]
\* calculator of usecase-001: eval, ZeroDivisionError caught
calculator_001(e) ==
    LET v == eval(e.toks)
    IN  IF v.ok THEN Value(v) ELSE ErrorText("Calculation error: division by zero")

\* calculator of usecase-004: eval, every Exception caught
calculator_004(e) ==
    LET v == eval(e.toks)
    IN  IF v.ok THEN ResultText(v) ELSE ErrorText("Calculation error: division by zero")

\* calculate of usecase-015: only digits, operators, brackets, blank and
\* dot pass the filter, which every expression here does
calculate_015(e) ==
    LET v == eval(e.toks)
    IN  IF v.ok THEN ResultText(v) ELSE ErrorText("Error calculating: division by zero")

\* the well-formed expressions: literal (operator literal)*
Alternating(len) ==
    {t \in [1..len -> {NumTok(k) : k \in 0..MaxNum} \cup {OpTok(o) : o \in Ops}] :
        \A i \in 1..len : (t[i].k = "num") <=> (i % 2 = 1)}
Expressions ==
    {[toks |-> t, spaced |-> sp] :
        t \in UNION {Alternating(2 * k + 1) : k \in 0..MaxOps}, sp \in BOOLEAN}
NumOps(e) == (Len(e.toks) - 1) \div 2

CalcTools == {"step2", "usecase-001", "usecase-004", "usecase-015"}

InitCalc ==
    /\ calc_tool \in CalcTools
    /\ expression \in Expressions
    /\ calc_out = [kind |-> "none", label |-> "", n |-> 0, d |-> 1, float |-> FALSE]
    /\ IdleScatter
    /\ IdleParse
    /\ IdleDriver
    /\ IdleMain
    /\ IdleLog
    /\ IdleRest

\* the tool named t is called with the expression and returns out
CallTool(t, out) ==
    /\ calc_tool = t
    /\ calc_out.kind = "none"
    /\ calc_out' = out
    /\ UNCHANGED <<calc_tool, expression, scatter_vars, parse_vars, driver_vars, main_vars,
                   log_vars, rest_vars>>

CalculatorStep2 == CallTool("step2", step2_calculator(expression))
Calculator001 == CallTool("usecase-001", calculator_001(expression))
Calculator004 == CallTool("usecase-004", calculator_004(expression))
Calculate015 == CallTool("usecase-015", calculate_015(expression))

NextCalc == CalculatorStep2 \/ Calculator001 \/ Calculator004 \/ Calculate015

SpecCalc == InitCalc /\ [][NextCalc]_vars


\* the value of a well-formed expression by rewriting: the leftmost * or /
\* is applied first, and when none is left the leftmost + or -
FirstOp(vals, ops, S) == CHOOSE i \in 1..Len(ops) : ops[i] \in S /\ \A j \in 1..(i - 1) : ops[j] \notin S
Without(xs, i) == SubSeq(xs, 1, i - 1) \o SubSeq(xs, i + 1, Len(xs))
RECURSIVE Rewrite(_, _)
Rewrite(vals, ops) ==
    IF ops = <<>> THEN vals[1]
    ELSE LET S == IF \E i \in 1..Len(ops) : ops[i] \in {"*", "/"}
                  THEN {"*", "/"} ELSE {"+", "-"}
             i == FirstOp(vals, ops, S)
         IN  Rewrite([Without(vals, i + 1) EXCEPT ![i] = Apply(ops[i], vals[i], vals[i + 1])],
                     Without(ops, i))
StandardValue(e) ==
    Rewrite([i \in 1..(NumOps(e) + 1) |-> Literal(e.toks[2 * i - 1].n)],
            [i \in 1..NumOps(e) |-> e.toks[2 * i].k])

Called == calc_out.kind # "none"

\* C13: a calculator called with an expression that divides by zero
\* returns an error string; it never raises.
C13_DivisionByZeroIsErrorString ==
    Called /\ ~StandardValue(expression).ok => calc_out.kind = "error" /\ calc_out.label # ""

\* usecase-001 was given a product divided by zero after a sum
C13_Witness ==
    /\ Called
    /\ calc_tool = "usecase-001"
    /\ NumOps(expression) = 2
    /\ expression.toks[2].k = "+"
    /\ expression.toks[4].k = "/"
    /\ expression.toks[5].n = 0
    /\ calc_out.kind = "error"

MaxCount == 2
\* most sections the document model call yields
MaxSections == 3

\* what a state record holds: the elements of its list, the fields of its
\* document
Holds(st) ==
    [log |-> IF st.log = 0 THEN <<>> ELSE lists[st.log],
     document |-> IF st.document = 0 THEN NoDoc ELSE docs[st.document],
     current_operation |-> st.current_operation]

\* (a variant that puts the record first)
ListPrepend(xs, x) == <<x>> \o xs
\* list.append
ListAppend(xs, x) == Append(xs, x)

LogRecord(sender, text) == [sender |-> sender, message |-> text]
\* add_message_to_log: state.get("message_log", []) and append, in place
add_message_to_log(log, sender, text) == ListAppend(log, LogRecord(sender, text))

\* create_initial_document
InitialDocument ==
    [status |-> "draft", current_version |-> 1,
     versions |-> <<[version_number |-> 1, sections |-> 0]>>,
     edit_history |-> <<>>]

\* the version whose number is document.current_version, 0 when none
CurrentVersion(d) ==
    IF \E i \in DOMAIN d.versions : d.versions[i].version_number = d.current_version
    THEN CHOOSE i \in DOMAIN d.versions :
            /\ d.versions[i].version_number = d.current_version
            /\ \A j \in 1..(i - 1) : d.versions[j].version_number # d.current_version
    ELSE 0

InitLog ==
    /\ pipe \in {"usecase-014", "usecase-020"}
    /\ ppc = IF pipe = "usecase-014" THEN "researcher" ELSE "initialize"
    /\ lists = << <<>> >>
    /\ docs = <<>>
    /\ gstate = [log |-> 1, document |-> 0, current_operation |-> "None"]
    /\ received = NoState
    /\ before = NoContents
    /\ IdleScatter
    /\ IdleParse
    /\ IdleDriver
    /\ IdleMain
    /\ IdleCalc
    /\ IdleRest

\* the graph calls node n with the state record
CallNode(n) ==
    /\ ppc = n
    /\ received' = gstate
    /\ before' = Holds(gstate)
    /\ UNCHANGED <<pipe, scatter_vars, parse_vars, driver_vars, main_vars, calc_vars, rest_vars>>

\* an agent of usecase-014: the model call, then messages.append(message)
\* on the list of the state it received, which it returns
Agent(name, from, nxt) ==
    /\ CallNode(name)
    /\ \E raises \in BOOLEAN, k \in 0..MaxCount :
         IF raises
         THEN ppc' = "raised" /\ UNCHANGED <<lists, gstate>>
         ELSE /\ lists' = [lists EXCEPT ![gstate.log] =
                              ListAppend(@, Message(from, ToString(k)))]
              /\ UNCHANGED gstate
              /\ ppc' = nxt
    /\ UNCHANGED docs

Researcher == Agent("researcher", "Researcher", "analyst")
Analyst == Agent("analyst", "Analyst", "critic")
Critic == Agent("critic", "Critic", "synthesizer")
Synthesizer == Agent("synthesizer", "Synthesizer", "END")

\* initialize_document: a new document and a new one-record message_log
InitializeDocument ==
    /\ CallNode("initialize")
    /\ docs' = Append(docs, InitialDocument)
    /\ lists' = Append(lists, <<LogRecord("System", "Document initialized")>>)
    /\ gstate' = [log |-> Len(lists) + 1, document |-> Len(docs) + 1,
                  current_operation |-> "None"]
    /\ ppc' = "generate_content"

\* generate_document_content: n sections replace the versions, the
\* operation is appended to edit_history and a message to the log
GenerateContent ==
    /\ CallNode("generate_content")
    /\ \E raises \in BOOLEAN, n \in 0..MaxSections :
         IF raises
         THEN ppc' = "raised" /\ UNCHANGED <<lists, docs, gstate>>
         ELSE /\ docs' = [docs EXCEPT ![gstate.document] =
                            [@ EXCEPT !.versions = <<[version_number |-> 1, sections |-> n]>>,
                                      !.edit_history = ListAppend(@, "create")]]
              /\ lists' = [lists EXCEPT ![gstate.log] =
                             add_message_to_log(@, "AI Editor", "Generated " \o ToString(n))]
              /\ gstate' = [gstate EXCEPT !.current_operation = "create"]
              /\ ppc' = "format_document"

\* a number that is already taken
same_version_number(d) == d.current_version
\* new_version_number = document.current_version + 1
new_version_number(d) == d.current_version + 1

\* format_document: one model call per section of the current version,
\* then a new version becomes the current one
FormatDocument ==
    /\ CallNode("format_document")
    /\ LET d == docs[gstate.document]
           cur == CurrentVersion(d)
       IN  IF cur = 0
           THEN /\ lists' = [lists EXCEPT ![gstate.log] =
                               add_message_to_log(@, "System", "Error: no current version")]
                /\ UNCHANGED <<docs, gstate>>
                /\ ppc' = "review_document"
           ELSE \E raises \in BOOLEAN :
                  IF raises /\ d.versions[cur].sections > 0
                  THEN ppc' = "raised" /\ UNCHANGED <<lists, docs, gstate>>
                  ELSE /\ docs' = [docs EXCEPT ![gstate.document] =
                                     [@ EXCEPT !.versions =
                                          ListAppend(@, [version_number |-> new_version_number(d),
                                                         sections |-> d.versions[cur].sections]),
                                               !.current_version = new_version_number(d),
                                               !.edit_history = ListAppend(@, "format")]]
                       /\ lists' = [lists EXCEPT ![gstate.log] =
                                      add_message_to_log(@, "AI Editor",
                                          "Formatted " \o ToString(d.versions[cur].sections))]
                       /\ gstate' = [gstate EXCEPT !.current_operation = "format"]
                       /\ ppc' = "review_document"

\* a review that publishes
reviewed_as_published(d) ==
    [d EXCEPT !.status = "published", !.edit_history = ListAppend(@, "review")]
\* document.status = "review", document.edit_history.append(operation)
reviewed(d) ==
    [d EXCEPT !.status = "review", !.edit_history = ListAppend(@, "review")]

\* review_document: the model call, status review
ReviewDocument ==
    /\ CallNode("review_document")
    /\ LET d == docs[gstate.document]
       IN  IF CurrentVersion(d) = 0
           THEN /\ lists' = [lists EXCEPT ![gstate.log] =
                               add_message_to_log(@, "System", "Error: no current version")]
                /\ UNCHANGED <<docs, gstate>>
                /\ ppc' = "finalize"
           ELSE \E raises \in BOOLEAN, feedback \in {"A", "B"} :
                  IF raises
                  THEN ppc' = "raised" /\ UNCHANGED <<lists, docs, gstate>>
                  ELSE /\ docs' = [docs EXCEPT ![gstate.document] = reviewed(@)]
                       /\ lists' = [lists EXCEPT ![gstate.log] =
                                      add_message_to_log(@, "Reviewer", feedback)]
                       /\ gstate' = [gstate EXCEPT !.current_operation = "review"]
                       /\ ppc' = "finalize"

\* finalize_document: status approved
FinalizeDocument ==
    /\ CallNode("finalize")
    /\ docs' = [docs EXCEPT ![gstate.document] =
                  [@ EXCEPT !.status = "approved",
                            !.edit_history = ListAppend(@, "approve")]]
    /\ lists' = [lists EXCEPT ![gstate.log] =
                   add_message_to_log(@, "Publisher",
                       "Final version: " \o ToString(docs[gstate.document].current_version))]
    /\ gstate' = [gstate EXCEPT !.current_operation = "approve"]
    /\ ppc' = "END"

NextLog ==
    \/ Researcher
    \/ Analyst
    \/ Critic
    \/ Synthesizer
    \/ InitializeDocument
    \/ GenerateContent
    \/ FormatDocument
    \/ ReviewDocument
    \/ FinalizeDocument

SpecLog == InitLog /\ [][NextLog]_vars

\* the logs of the state: the message list and the edit history
MessageLog == Holds(gstate).log
EditHistory == Holds(gstate).document.edit_history
IsPrefix(xs, ys) == Len(xs) <= Len(ys) /\ SubSeq(ys, 1, Len(xs)) = xs
Extends(xs, ys) == IsPrefix(xs, ys) /\ Len(ys) = Len(xs) + 1

\* C15: every step leaves each log as it was or with exactly one record
\* more at its end: a step that returns appends one message, the steps of
\* usecase-020 after initialize also one edit, and a step that raises
\* changes nothing.
C15_LogsAppendOnly ==
    [][ /\ IsPrefix(MessageLog, MessageLog')
        /\ IsPrefix(EditHistory, EditHistory')
        /\ ppc' # "raised" => Extends(MessageLog, MessageLog')
        /\ ppc' \in {"format_document", "finalize"} => Extends(EditHistory, EditHistory')
        /\ ppc' = "END" /\ pipe = "usecase-020" => Extends(EditHistory, EditHistory')
        /\ ppc' = "raised" => MessageLog' = MessageLog /\ EditHistory' = EditHistory
      ]_vars

\* the document pipeline has ended with five messages and four edits
C15_Witness ==
    /\ pipe = "usecase-020"
    /\ ppc = "END"
    /\ Len(MessageLog) = 5
    /\ EditHistory = <<"create", "format", "review", "approve">>

\* C16: a node does not modify the state record it received: what the
\* record holds after the node ran, nested list and document included, is
\* what it held when the node was called.
C16_InputStateUnchanged ==
    received # NoState => Holds(received) = before

(***************************************************************************)
(* usecase-009: the product tools and the catalog.                         *)
(*                                                                         *)
(* PRODUCT_CATALOG is a module-level name bound once, by json.load, to a   *)
(* list of product dicts.  Lists are objects: a tool that sorts, appends   *)
(* to or truncates a list changes the object, whoever else names it.       *)
(* objects is the sequence of list objects alive during a call; a product  *)
(* is a record and a text is matched by the lower-case words it contains.  *)
(***************************************************************************)
MaxProducts == 6
MaxPattern == 4

Kinds == {"phone", "book", "racket"}

\* one product of create_product_catalog, of the given kind
Product(kind, id) ==
    CASE kind = "phone" ->
           [id |-> id, name |-> "TechGiant Smartphone", category |-> "Electronics",
            brand |-> "TechGiant", price |-> 40, rating |-> 45, in_stock |-> TRUE,
            attributes |-> {"Black", "True"}]
      [] kind = "book" ->
           [id |-> id, name |-> "The Great Story", category |-> "Books",
            brand |-> "KnowledgePress", price |-> 250, rating |-> 39, in_stock |-> TRUE,
            attributes |-> {"English", "Hardcover"}]
      [] OTHER ->
           [id |-> id, name |-> "AthleteChoice Tennis Racket",
            category |-> "Sports & Outdoors", brand |-> "AthleteChoice",
            price |-> 250, rating |-> 45, in_stock |-> FALSE,
            attributes |-> {"Blue", "Professional"}]

\* product_id = 1000, then product_id += 1 for each product
FirstId == 1000

\* str.lower, as the set of words a search term can be found in
Lower(s) ==
    CASE s = "TechGiant Smartphone" -> {"techgiant", "smartphone"}
      [] s = "The Great Story" -> {"the", "great", "story"}
      [] s = "AthleteChoice Tennis Racket" -> {"athletechoice", "tennis", "racket"}
      [] s = "Electronics" -> {"electronics"}
      [] s = "Books" -> {"books"}
      [] s = "Sports & Outdoors" -> {"sports", "outdoors"}
      [] s = "TechGiant" -> {"techgiant"}
      [] s = "KnowledgePress" -> {"knowledgepress"}
      [] s = "AthleteChoice" -> {"athletechoice"}
      [] s = "Black" -> {"black"}
      [] s = "Blue" -> {"blue"}
      [] s = "True" -> {"true"}
      [] s = "English" -> {"english"}
      [] s = "Hardcover" -> {"hardcover"}
      [] s = "Professional" -> {"professional"}
      [] OTHER -> {s}

\* the catalog object
PRODUCT_CATALOG == objects[1]

\* a list is reused instead of allocated: the newest object is emptied
list_reuse(h) == [h EXCEPT ![Len(h)] = <<>>]

\* a list display, a comprehension, a slice or list.copy() makes a new object
list_new(h) == Append(h, <<>>)

\* the heap after a new list with the given elements was made; the new list
\* is its last object
ListOf(h, elems) ==
    LET h1 == list_new(h) IN [h1 EXCEPT ![Len(h1)] = elems]

\* a local is bound to the list just made
Bound(h) == [h |-> h, v |-> Len(h)]

\* list.append(x) on the object i
list_append(h, i, x) == [h EXCEPT ![i] = Append(h[i], x)]

\* matching_products.sort(key=lambda x: x[1], reverse=True): stable, in place
RECURSIVE SortedByScore(_)
SortedByScore(s) ==
    IF s = <<>> THEN <<>>
    ELSE LET rest == SortedByScore(SubSeq(s, 1, Len(s) - 1))
             x == s[Len(s)]
             ahead == SelectSeq(rest, LAMBDA y : y.score >= x.score)
             behind == SelectSeq(rest, LAMBDA y : y.score < x.score)
         IN  ahead \o <<x>> \o behind
list_sort(h, i) == [h EXCEPT ![i] = SortedByScore(h[i])]

\* the ids of the products of a list, in order
RECURSIVE Ids(_)
Ids(s) == IF s = <<>> THEN <<>> ELSE <<Head(s).id>> \o Ids(Tail(s))

\* ---- search_products
NoFilter == ""
Queries ==
    [category : {NoFilter, "electronics"}, brand : {NoFilter, "knowledgepress"},
     min_price : {-1, 100}, max_price : {-1, 100}, min_rating : {-1, 45},
     terms : {NoFilter, "blue"}]

\* filtered_products = [p for p in filtered_products if ...] when the filter
\* is present: st.v is the object the local names
Filtered(st, present, keep) ==
    IF present
    THEN Bound(ListOf(st.h, SelectSeq(st.h[st.v], LAMBDA p : keep[p])))
    ELSE st

MaxShown == 5

search_products(h, q) ==
    LET products == {h[1][i] : i \in DOMAIN h[1]}
        s0 == Bound(ListOf(h, h[1]))
        s1 == Filtered(s0, q.category # NoFilter,
                       [p \in products |-> q.category \in Lower(p.category)])
        s2 == Filtered(s1, q.brand # NoFilter,
                       [p \in products |-> q.brand \in Lower(p.brand)])
        s3 == Filtered(s2, q.min_price # -1,
                       [p \in products |-> p.price >= q.min_price])
        s4 == Filtered(s3, q.max_price # -1,
                       [p \in products |-> p.price <= q.max_price])
        s5 == Filtered(s4, q.min_rating # -1,
                       [p \in products |-> p.rating >= q.min_rating])
        s6 == Filtered(s5, q.terms # NoFilter,
                       [p \in products |->
                           \/ q.terms \in Lower(p.name)
                           \/ q.terms \in Lower(p.category)
                           \/ q.terms \in Lower(p.brand)
                           \/ \E v \in p.attributes : q.terms \in Lower(v)])
        s7 == IF Len(s6.h[s6.v]) > MaxShown
              THEN Bound(ListOf(s6.h, SubSeq(s6.h[s6.v], 1, MaxShown)))
              ELSE s6
        found == s7.h[s7.v]
    IN  [h |-> s7.h,
         out |-> IF found = <<>> THEN [kind |-> "No products found", ids |-> <<>>]
                 ELSE [kind |-> "json", ids |-> Ids(found)]]

\* ---- recommend_products
CategoryWords == {"electronics", "clothing", "home", "kitchen", "books", "sports",
                  "outdoors"}
AttributeWords == {"wireless", "bluetooth", "waterproof", "lightweight", "portable",
                   "durable", "professional", "beginner", "advanced", "premium",
                   "budget"}
Criteria == SUBSET {"electronics", "books", "cheap", "premium"}

product_text(p) ==
    Lower(p.name) \cup Lower(p.category) \cup Lower(p.brand)
      \cup UNION {Lower(v) : v \in p.attributes}

Score(p, preferences) ==
    5 * Cardinality({c \in CategoryWords : c \in preferences /\ c \in product_text(p)})
    + 3 * Cardinality({a \in AttributeWords :
                          a \in preferences /\ a \in product_text(p)})
    + (IF preferences \cap {"cheap", "affordable", "budget"} # {}
       THEN (IF p.price < 50 THEN 4 ELSE IF p.price < 100 THEN 2 ELSE 0)
       ELSE IF preferences \cap {"premium", "high-end", "luxury"} # {}
       THEN (IF p.price > 200 THEN 4 ELSE IF p.price > 100 THEN 2 ELSE 0)
       ELSE 0)
    + (IF p.rating >= 45 THEN 3 ELSE IF p.rating >= 40 THEN 1 ELSE 0)

MinScore == 5
MaxRecommended == 3

\* for product in PRODUCT_CATALOG: ... matching_products.append((product, score))
RECURSIVE Scan(_, _, _, _)
Scan(h, m, i, preferences) ==
    IF i > Len(h[1]) THEN h
    ELSE LET p == h[1][i]
         IN  IF "in_stock" \in DOMAIN p /\ p.in_stock
                /\ Score(p, preferences) > MinScore
             THEN Scan(list_append(h, m, [id |-> p.id,
                                          score |-> Score(p, preferences)]),
                       m, i + 1, preferences)
             ELSE Scan(h, m, i + 1, preferences)

\* raises: recommendation_explanation_chain.run raises, which the tool catches
recommend_products(h, preferences, raises) ==
    LET h1 == list_new(h)
        m == Len(h1)
        h2 == list_sort(Scan(h1, m, 1, preferences), m)
        top == IF Len(h2[m]) >= MaxRecommended
               THEN Bound(ListOf(h2, SubSeq(h2[m], 1, MaxRecommended)))
               ELSE [h |-> h2, v |-> m]
        top_products == top.h[top.v]
    IN  IF top_products = <<>>
        THEN [h |-> top.h, out |-> [kind |-> "No products found", ids |-> <<>>]]
        ELSE IF raises
        THEN [h |-> list_new(top.h),
              out |-> [kind |-> "Error recommending products", ids |-> <<>>]]
        ELSE [h |-> ListOf(top.h, top_products),
              out |-> [kind |-> "json", ids |-> Ids(top_products)]]

\* ---- compare_products
NotANumber == -1
IdLists ==
    {<<a>> : a \in {FirstId, NotANumber}}
      \cup {<<a, b>> : a \in {FirstId, FirstId + 1},
                       b \in {FirstId + 1, FirstId + MaxProducts, NotANumber}}

\* next((p for p in PRODUCT_CATALOG if p["id"] == product_id), None)
FindProduct(h, product_id) ==
    SelectSeq(h[1], LAMBDA p : "in_stock" \in DOMAIN p /\ p.id = product_id)

RECURSIVE CollectProducts(_, _, _)
CollectProducts(h, c, ids) ==
    IF ids = <<>> THEN h
    ELSE LET f == FindProduct(h, Head(ids))
         IN  CollectProducts(IF f # <<>> THEN list_append(h, c, f[1]) ELSE h, c, Tail(ids))

compare_products(h, ids) ==
    IF \E i \in 1..Len(ids) : ids[i] = NotANumber
    THEN [h |-> h, out |-> [kind |-> "Error comparing products", ids |-> <<>>]]
    ELSE LET h1 == list_new(ListOf(h, ids))
             c == Len(h1)
             h2 == CollectProducts(h1, c, ids)
         IN  IF h2[c] = <<>>
             THEN [h |-> h2, out |-> [kind |-> "No products found", ids |-> <<>>]]
             ELSE IF Len(h2[c]) < 2
             THEN [h |-> h2, out |-> [kind |-> "Please provide at least two",
                                      ids |-> <<>>]]
             ELSE [h |-> list_new(h2),
                   out |-> [kind |-> "json", ids |-> Ids(h2[c])]]

\* ---- explain_recommendation
Requests ==
    [bar : BOOLEAN, product_id : {FirstId, FirstId + MaxProducts, NotANumber}]

explain_recommendation(h, r, raises) ==
    IF ~r.bar
    THEN [h |-> h, out |-> [kind |-> "Please provide both", ids |-> <<>>]]
    ELSE LET h1 == list_new(h)
         IN  IF r.product_id = NotANumber
             THEN [h |-> h1, out |-> [kind |-> "Product ID must be a number",
                                      ids |-> <<>>]]
             ELSE IF FindProduct(h1, r.product_id) = <<>>
             THEN [h |-> h1, out |-> [kind |-> "No product found with ID",
                                      ids |-> <<r.product_id>>]]
             ELSE IF raises
             THEN [h |-> h1, out |-> [kind |-> "Error generating explanation",
                                      ids |-> <<>>]]
             ELSE [h |-> h1, out |-> [kind |-> "explanation",
                                      ids |-> <<r.product_id>>]]

\* ---- the module is imported, then the agent calls the tools
\* the kinds of the first MaxPattern products are free and repeat after them
Catalogs ==
    {[i \in 1..MaxProducts |-> Product(k[((i - 1) % MaxPattern) + 1], FirstId + i - 1)] :
        k \in [1..MaxPattern -> Kinds]}

InitShop ==
    /\ loaded \in Catalogs
    /\ objects = <<loaded>>
    /\ shop_tool = "none"
    /\ shop_out = NoOutput
    /\ IdleScatter
    /\ IdleParse
    /\ IdleDriver
    /\ IdleMain
    /\ IdleCalc
    /\ IdleLog
    /\ IdleRefine
    /\ IdleHitl
    /\ IdleLast

\* the tool named t returns r; the lists only its locals named are gone
ToolReturns(t, r) ==
    /\ objects' = <<r.h[1]>>
    /\ shop_tool' = t
    /\ shop_out' = r.out
    /\ UNCHANGED <<loaded, scatter_vars, parse_vars, driver_vars, main_vars,
                   calc_vars, log_vars, refine_vars, hitl_vars, last_vars>>

SearchProducts ==
    \E q \in Queries : ToolReturns("search_products", search_products(objects, q))

RecommendProducts ==
    \E preferences \in Criteria, raises \in BOOLEAN :
        ToolReturns("recommend_products",
                    recommend_products(objects, preferences, raises))

CompareProducts ==
    \E ids \in IdLists : ToolReturns("compare_products", compare_products(objects, ids))

ExplainRecommendation ==
    \E r \in Requests, raises \in BOOLEAN :
        ToolReturns("explain_recommendation",
                    explain_recommendation(objects, r, raises))

NextShop ==
    \/ SearchProducts
    \/ RecommendProducts
    \/ CompareProducts
    \/ ExplainRecommendation

SpecShop == InitShop /\ [][NextShop]_vars

\* C17: in usecase-009, whatever tools were called and in whatever order,
\* PRODUCT_CATALOG holds the products json.load returned at import, in the
\* same order and with the same fields.
C17_CatalogUnchanged ==
    shop_tool # "none" => PRODUCT_CATALOG = loaded

\* recommend_products returned two recommendations in another order than the
\* catalog's: its sort reordered a list
C17_Witness ==
    /\ shop_tool = "recommend_products"
    /\ shop_out.kind = "json"
    /\ Len(shop_out.ids) >= 2
    /\ shop_out.ids[1] > shop_out.ids[2]
    /\ PRODUCT_CATALOG = loaded

(***************************************************************************)
(* usecase-013: the iterative refinement graph.                            *)
(*                                                                         *)
(* initial -> assess -> (refine -> assess)* -> finalize -> END, the choice *)
(* after assess made by should_continue_refining.  A score is kept in      *)
(* tenths; a text is the number of the model answer that produced it.      *)
(***************************************************************************)
MaxAnswers == 2
MaxRuns == 5

\* 8.0 and 3 of should_continue_refining
QualityThreshold == 80
MaxIterations == 3

\* what float(result.get("score", 5.0)) can give
Scores == {0, 50, 79, 80, 100}
DefaultScore == 50

\* response.content of the assess call, by how the parse ends
AssessmentKinds ==
    {"score", "nan", "no score key", "score not a number", "not a dict", "not json"}
Assessments ==
    [kind : AssessmentKinds, tenths : Scores, suggestions : 0..MaxAnswers,
     as_list : BOOLEAN]

\* x >= y on floats: false when x is NaN
FloatGe(x, y) == ~x.nan /\ x.tenths >= y

\* the three values assess computes from the response (lines 63-75)
ParseAssessment(a) ==
    IF a.kind \in {"score", "nan", "no score key"}
    THEN [quality_score |->
              IF a.kind = "nan" THEN [nan |-> TRUE, tenths |-> 0]
              ELSE IF a.kind = "score" THEN [nan |-> FALSE, tenths |-> a.tenths]
              ELSE [nan |-> FALSE, tenths |-> DefaultScore],
          quality_assessment |-> "given",
          improvement_suggestions |-> IF a.as_list THEN a.suggestions ELSE 1]
    ELSE [quality_score |-> [nan |-> FALSE, tenths |-> DefaultScore],
          quality_assessment |-> "Unable to parse assessment",
          improvement_suggestions |-> 1]

\* the routing function with the iteration cap dropped
should_continue_uncapped(st) ==
    IF FloatGe(st.quality_score, QualityThreshold) THEN "finalize" ELSE "refine"

\* the routing function with both comparisons strict
should_continue_strict(st) ==
    IF (~st.quality_score.nan /\ st.quality_score.tenths > QualityThreshold)
       \/ st.iteration_count > MaxIterations
    THEN "finalize" ELSE "refine"

should_continue_refining(st) ==
    IF FloatGe(st.quality_score, QualityThreshold)
       \/ st.iteration_count >= MaxIterations
    THEN "finalize" ELSE "refine"

\* graph.invoke({"problem": problem})
InitRefine ==
    /\ rpc = "initial"
    /\ agent_state = NoAgentState
    /\ runs = NoRuns
    /\ last_node = "none"
    /\ IdleScatter
    /\ IdleParse
    /\ IdleDriver
    /\ IdleMain
    /\ IdleCalc
    /\ IdleLog
    /\ IdleShop
    /\ IdleHitl
    /\ IdleLast

\* the graph calls node n; llm.invoke either raises, which nothing catches,
\* or answers and the node returns st, after which the graph goes to nxt
RunRefineNode(n, raises, st, nxt) ==
    /\ rpc = n
    /\ runs[n] < MaxRuns
    /\ runs' = [runs EXCEPT ![n] = @ + 1]
    /\ last_node' = n
    /\ IF raises
       THEN rpc' = "raised" /\ UNCHANGED agent_state
       ELSE rpc' = nxt /\ agent_state' = st
    /\ UNCHANGED <<scatter_vars, parse_vars, driver_vars, main_vars, calc_vars,
                   log_vars, shop_vars, hitl_vars, last_vars>>

RunInitial ==
    \E raises \in BOOLEAN, answer \in 1..MaxAnswers :
        RunRefineNode("initial", raises,
                      [current_solution |-> answer, quality_assessment |-> "",
                       quality_score |-> [nan |-> FALSE, tenths |-> 0],
                       improvement_suggestions |-> 0, iteration_count |-> 0,
                       final_solution |-> 0],
                      "assess")

RunAssess ==
    \E raises \in BOOLEAN, a \in Assessments :
        LET parsed == ParseAssessment(a)
            st == [agent_state EXCEPT
                     !.quality_assessment = parsed.quality_assessment,
                     !.quality_score = parsed.quality_score,
                     !.improvement_suggestions = parsed.improvement_suggestions,
                     !.iteration_count = agent_state.iteration_count + 1]
        IN  RunRefineNode("assess", raises, st, should_continue_refining(st))

RunRefine ==
    \E raises \in BOOLEAN, answer \in 1..MaxAnswers :
        RunRefineNode("refine", raises,
                      [agent_state EXCEPT !.current_solution = answer], "assess")

RunFinalize ==
    \E raises \in BOOLEAN, answer \in 1..MaxAnswers :
        RunRefineNode("finalize", raises,
                      [agent_state EXCEPT !.final_solution = answer], "END")

NextRefine ==
    \/ RunInitial
    \/ RunAssess
    \/ RunRefine
    \/ RunFinalize

SpecRefine == InitRefine /\ [][NextRefine]_vars

\* the graph runs the next node as long as there is one
SpecRefineFair == SpecRefine /\ WF_vars(NextRefine)

\* C18: whatever the assessments are (any score, NaN, a missing or
\* non-numeric score, a response that is not JSON), the graph of usecase-013
\* stops, and unless a model call raised it stops at END; assess never runs
\* more than 3 times, refine more than 2 times, finalize more than once, and
\* at END assess has run 1 to 3 times and finalize exactly once.
C18_RefinementTerminates ==
    /\ <>(rpc \in {"END", "raised"})
    /\ [](runs.assess <= 3 /\ runs.refine <= 2 /\ runs.finalize <= 1)
    /\ [](rpc = "END" => runs.assess \in 1..3 /\ runs.finalize = 1)

\* END after three assessments and two refinements
C18_Witness ==
    /\ rpc = "END"
    /\ runs.assess = 3
    /\ runs.refine = 2
    /\ runs.finalize = 1

\* C19: in usecase-013, as long as no model call raised, iteration_count is
\* the number of assess runs: initial sets it to 0, only assess changes it
\* afterwards, and by exactly 1; when assess has returned, finalize is next exactly when the latest
\* quality_score >= 8.0 or iteration_count >= 3, and refine is next otherwise.
C19_IterationCountCountsAssess ==
    /\ [](rpc \notin {"none", "initial", "raised"}
            => agent_state.iteration_count = runs.assess)
    /\ [](last_node = "initial" /\ rpc # "raised" => agent_state.iteration_count = 0)
    /\ [][agent_state'.iteration_count # agent_state.iteration_count
            => \/ last_node' = "initial" /\ agent_state'.iteration_count = 0
               \/ /\ last_node' = "assess"
                  /\ agent_state'.iteration_count = agent_state.iteration_count + 1]_vars
    /\ [](last_node = "assess" /\ rpc # "raised"
            => /\ rpc \in {"finalize", "refine"}
               /\ rpc = "finalize"
                    <=> \/ (~agent_state.quality_score.nan
                            /\ agent_state.quality_score.tenths >= 80)
                        \/ agent_state.iteration_count >= 3)

\* the third assessment scored below 8.0 and finalize is next
C19_Witness ==
    /\ last_node = "assess"
    /\ rpc = "finalize"
    /\ agent_state.iteration_count = 3
    /\ runs.assess = 3
    /\ ~agent_state.quality_score.nan
    /\ agent_state.quality_score.tenths < 80

(***************************************************************************)
(* usecase-017: the human-in-the-loop graph.                               *)
(*                                                                         *)
(* create_outline -> create_draft -> process_feedback, then END when the   *)
(* status is complete and revise_content -> process_feedback otherwise.    *)
(* A draft is the number of the model answer that produced it.             *)
(***************************************************************************)
MaxDrafts == 3
MaxRevisions == 3

\* how create_outline got its outline (lines 34-52)
Outlines == {"json", "lines", "fallback"}

\* what the human types at the prompt
Typed == {"approve", " APPROVE ", "reject", "Reject", "approved", "make it shorter", ""}

\* feedback.lower().strip()
LowerStrip(s) ==
    CASE s = " APPROVE " -> "approve"
      [] s = "Reject" -> "reject"
      [] OTHER -> s

get_human_feedback(feedback) ==
    IF LowerStrip(feedback) = "approve"
    THEN [type |-> "approve", content |-> "Content approved as-is."]
    ELSE IF LowerStrip(feedback) = "reject"
    THEN [type |-> "reject", content |-> "Content rejected. Please rewrite completely."]
    ELSE [type |-> "revise", content |-> feedback]

\* the approve branch without the assignment of final_content
ApprovedWithoutFinal(st) == [st EXCEPT !.status = "complete"]

\* the approve branch of process_human_feedback (lines 121-126)
Approved(st) ==
    [st EXCEPT !.final_content = st.draft_content, !.status = "complete"]

process_human_feedback(st, feedback) ==
    LET combined_state == [st EXCEPT !.human_feedback = get_human_feedback(feedback)]
    IN  IF combined_state.human_feedback.type = "approve"
        THEN Approved(combined_state)
        ELSE [combined_state EXCEPT !.status = "revising"]

\* the routing function that ends the graph whatever the status
route_always_ends(st) == "END"

route_after_feedback(st) ==
    IF st.status = "complete" THEN "END" ELSE "revise_content"

\* graph.invoke(initial_state)
InitHitl ==
    /\ hpc = "create_outline"
    /\ content_state = initial_state
    /\ revisions = 0
    /\ IdleScatter
    /\ IdleParse
    /\ IdleDriver
    /\ IdleMain
    /\ IdleCalc
    /\ IdleLog
    /\ IdleShop
    /\ IdleRefine
    /\ IdleLast

\* the graph calls node n; the node raises (llm.invoke, or input() at the
\* end of the input), which nothing catches, or returns st and the graph
\* goes to nxt
RunHitlNode(n, raises, st, nxt) ==
    /\ hpc = n
    /\ IF raises
       THEN hpc' = "raised" /\ UNCHANGED content_state
       ELSE hpc' = nxt /\ content_state' = st
    /\ UNCHANGED <<scatter_vars, parse_vars, driver_vars, main_vars, calc_vars,
                   log_vars, shop_vars, refine_vars, last_vars>>

RunCreateOutline ==
    \E raises \in BOOLEAN, outline \in Outlines :
        /\ RunHitlNode("create_outline", raises,
                       [content_state EXCEPT !.outline = outline,
                                             !.status = "draft_needed"],
                       "create_draft")
        /\ UNCHANGED revisions

RunCreateDraft ==
    \E raises \in BOOLEAN, answer \in 1..MaxDrafts :
        /\ RunHitlNode("create_draft", raises,
                       [content_state EXCEPT !.draft_content = answer,
                                             !.status = "awaiting_feedback"],
                       "process_feedback")
        /\ UNCHANGED revisions

RunProcessFeedback ==
    \E raises \in BOOLEAN, feedback \in Typed :
        LET st == process_human_feedback(content_state, feedback)
        IN  /\ RunHitlNode("process_feedback", raises, st, route_after_feedback(st))
            /\ UNCHANGED revisions

RunReviseContent ==
    \E raises \in BOOLEAN, answer \in 1..MaxDrafts :
        /\ revisions < MaxRevisions
        /\ RunHitlNode("revise_content", raises,
                       [content_state EXCEPT !.draft_content = answer,
                                             !.status = "awaiting_feedback"],
                       "process_feedback")
        /\ revisions' = revisions + 1

NextHitl ==
    \/ RunCreateOutline
    \/ RunCreateDraft
    \/ RunProcessFeedback
    \/ RunReviseContent

SpecHitl == InitHitl /\ [][NextHitl]_vars

StatusSteps ==
    {<<"draft_needed", "awaiting_feedback">>, <<"awaiting_feedback", "revising">>,
     <<"revising", "awaiting_feedback">>, <<"awaiting_feedback", "complete">>}

\* C20: in usecase-017 the status starts as draft_needed and changes only
\* along draft_needed -> awaiting_feedback -> (revising ->
\* awaiting_feedback)* -> complete; the graph is at END only with status
\* complete, feedback of type approve and final_content equal to the
\* draft_content that feedback was given on; and it goes to END exactly when
\* the feedback just processed was approve.
C20_StatusPath ==
    /\ content_state.status = "draft_needed"
    /\ [][content_state'.status # content_state.status
            => <<content_state.status, content_state'.status>> \in StatusSteps]_vars
    /\ [](hpc = "END"
            => /\ content_state.status = "complete"
               /\ content_state.human_feedback.type = "approve"
               /\ content_state.draft_content # 0
               /\ content_state.final_content = content_state.draft_content)
    /\ [][hpc = "process_feedback" /\ hpc' # "raised" /\ hpc' # hpc
            => (hpc' = "END" <=> content_state'.human_feedback.type = "approve")]_vars
    /\ [][hpc' = "END" => hpc \in {"process_feedback", "END"}]_vars

\* a draft was revised twice and the second revision was approved: END with
\* the latest draft as final content
C20_Witness ==
    /\ hpc = "END"
    /\ revisions = 2
    /\ content_state.status = "complete"
    /\ content_state.human_feedback.type = "approve"
    /\ content_state.final_content = content_state.draft_content
    /\ content_state.final_content = MaxDrafts

\* C21: in usecase-017 a feedback other than approve (reject, any other
\* text, the empty line) sends the graph to revise_content, whose one step
\* leads back to the feedback request, however many revisions were made
\* before; the graph goes to END exactly when the feedback just given is
\* approve, and reaches END from nowhere else.  A node that raises ends the
\* run instead.
C21_RevisionRounds ==
    /\ [][hpc = "process_feedback" /\ hpc' \notin {"raised", "process_feedback"}
            => IF content_state'.human_feedback.type = "approve"
               THEN hpc' = "END"
               ELSE /\ hpc' = "revise_content"
                    /\ content_state'.human_feedback.type \in {"reject", "revise"}
                    /\ revisions' = revisions]_vars
    /\ [][hpc = "revise_content" /\ hpc' \notin {"raised", "revise_content"}
            => hpc' = "process_feedback" /\ revisions' = revisions + 1]_vars
    /\ [][hpc' = "END" /\ hpc # "END"
            => hpc = "process_feedback"
               /\ content_state'.human_feedback.type = "approve"]_vars
    /\ [][hpc = "END" => hpc' = "END"]_vars

\* the empty line was given as feedback after MaxRevisions revisions, and
\* one more revision is requested
C21_Witness ==
    /\ hpc = "revise_content"
    /\ revisions = MaxRevisions
    /\ content_state.human_feedback = [type |-> "revise", content |-> ""]
    /\ content_state.status = "revising"

(***************************************************************************)
(* usecase-016: the error-handling graph.                                  *)
(*                                                                         *)
(* validate, then handle_error when validate set status error and          *)
(* process_text otherwise, then finalize and END.  input_text is a         *)
(* sequence of characters.                                                 *)
(***************************************************************************)
MaxInput == 4

MinChars == 3

RECURSIVE SeqsUpTo(_, _)
SeqsUpTo(S, n) ==
    IF n = 0 THEN {<<>>}
    ELSE LET shorter == SeqsUpTo(S, n - 1)
         IN  shorter \cup {Append(s, x) : s \in shorter, x \in S}

\* sys.argv[1]
InputTexts == SeqsUpTo({"a", SP}, MaxInput)

\* the validation without the strip
too_short_untrimmed(input_text) == input_text = <<>> \/ Len(input_text) < MinChars

\* not input_text or len(input_text.strip()) < 3
too_short(input_text) == input_text = <<>> \/ Len(Strip(input_text)) < MinChars

validate_input(st) ==
    IF too_short(st.input_text)
    THEN [st EXCEPT !.error = "Input text is too short or empty", !.status = "error"]
    ELSE [st EXCEPT !.status = "success"]

process_text(st, summary) ==
    [st EXCEPT !.processed_result = [none |-> FALSE, prefix |-> "", text |-> summary],
               !.status = "success"]

handle_error(st) ==
    [st EXCEPT !.processed_result =
                   [none |-> FALSE, prefix |-> "",
                    text |-> "Could not process the input due to validation error."],
               !.status = "recovered"]

create_final_output(st) ==
    LET prefix == IF st.status = "recovered" THEN "[RECOVERED] "
                  ELSE IF st.status = "error" THEN "[ERROR] "
                  ELSE ""
        result == st.processed_result
    IN  [st EXCEPT !.processed_result =
            IF ~result.none /\ result.text # ""
            THEN [none |-> FALSE, prefix |-> prefix, text |-> result.text]
            ELSE [none |-> FALSE, prefix |-> prefix, text |-> "No result available"]]

route_based_on_validation(st) ==
    IF st.status = "error" THEN "handle_error" ELSE "process_text"

\* graph.invoke(initial_state)
InitError ==
    /\ epc = "validate"
    /\ \E input_text \in InputTexts :
         processing_state = [NoProcessingState EXCEPT !.input_text = input_text]
    /\ visited = <<>>
    /\ IdleScatter
    /\ IdleParse
    /\ IdleDriver
    /\ IdleMain
    /\ IdleCalc
    /\ IdleLog
    /\ IdleShop
    /\ IdleRefine
    /\ IdleHitl
    /\ IdleBranch
    /\ IdleTools

\* the graph calls node n, which returns st, and goes to nxt
RunErrorNode(n, st, nxt) ==
    /\ epc = n
    /\ visited' = Append(visited, n)
    /\ processing_state' = st
    /\ epc' = nxt
    /\ UNCHANGED <<scatter_vars, parse_vars, driver_vars, main_vars, calc_vars,
                   log_vars, shop_vars, refine_vars, hitl_vars, branch_vars,
                   tool_vars>>

ValidateInput ==
    LET st == validate_input(processing_state)
    IN  RunErrorNode("validate", st, route_based_on_validation(st))

\* llm.invoke raises, which nothing catches, or answers
ProcessText ==
    \E raises \in BOOLEAN, summary \in {"", "summary"} :
        IF raises
        THEN RunErrorNode("process_text", processing_state, "raised")
        ELSE RunErrorNode("process_text", process_text(processing_state, summary),
                          "finalize")

HandleError == RunErrorNode("handle_error", handle_error(processing_state), "finalize")

CreateFinalOutput ==
    RunErrorNode("finalize", create_final_output(processing_state), "END")

NextError ==
    \/ ValidateInput
    \/ ProcessText
    \/ HandleError
    \/ CreateFinalOutput

SpecError == InitError /\ [][NextError]_vars

\* the nodes that ran
Visited == {visited[i] : i \in DOMAIN visited}

\* the input is empty or has fewer than 3 characters between its leading
\* and trailing whitespace
FewerThanThree(s) ==
    \/ s = <<>>
    \/ \A i, j \in 1..Len(s) : (s[i] # SP /\ s[j] # SP) => j - i < 2

\* C22: in usecase-016, when the input is empty or has fewer than 3
\* characters after trimming, process_text never runs and at END the nodes
\* that ran are validate, handle_error, finalize, status is recovered, error
\* is set and processed_result starts with "[RECOVERED] "; otherwise
\* handle_error never runs, error stays None and at END status is success.
\* At END status is never error.
C22_ValidationRoutes ==
    /\ FewerThanThree(processing_state.input_text)
         => /\ "process_text" \notin Visited
            /\ epc = "END"
                 => /\ visited = <<"validate", "handle_error", "finalize">>
                    /\ processing_state.status = "recovered"
                    /\ processing_state.error # "None"
                    /\ processing_state.processed_result.prefix = "[RECOVERED] "
    /\ ~FewerThanThree(processing_state.input_text)
         => /\ "handle_error" \notin Visited
            /\ processing_state.error = "None"
            /\ epc = "END"
                 => /\ visited = <<"validate", "process_text", "finalize">>
                    /\ processing_state.status = "success"
    /\ epc = "END" => processing_state.status # "error"

\* an input of four characters of which one is not whitespace was recovered
C22_Witness ==
    /\ epc = "END"
    /\ Len(processing_state.input_text) = 4
    /\ processing_state.input_text[2] = "a"
    /\ processing_state.status = "recovered"
    /\ processing_state.processed_result.prefix = "[RECOVERED] "

(***************************************************************************)
(* usecase-012: the branching graph.                                       *)
(*                                                                         *)
(* analyze, then solve_simple or break_down_complex -> solve_complex by    *)
(* route_by_complexity, then finalize and END.  The answer to the          *)
(* complexity question is a sequence of characters; any other text is the  *)
(* number of the model answer that produced it.                            *)
(***************************************************************************)
MaxSolutions == 2

\* response.content of the analyze call
ComplexityTexts ==
    { <<"s", "i", "m", "p", "l", "e">>,
      <<"S", "i", "m", "p", "l", "e">>,
      <<"S", "I", "M", "P", "L", "E", ".">>,
      <<SP, "s", "i", "m", "p", "l", "e", NL>>,
      <<"s", "i", "m", "p", "l", "e", "r">>,
      <<"n", "o", "t", SP, "s", "i", "m", "p", "l", "e">>,
      <<"s", "i", "m", "p", "l">>,
      <<"s", "i", "m", SP, "p", "l", "e">>,
      <<"c", "o", "m", "p", "l", "e", "x">>,
      <<"C", "o", "m", "p", "l", "e", "x">>,
      <<>> }

\* str.lower() on one character
LowerChar(c) ==
    CASE c = "S" -> "s" [] c = "I" -> "i" [] c = "M" -> "m" [] c = "P" -> "p"
      [] c = "L" -> "l" [] c = "E" -> "e" [] c = "C" -> "c" [] OTHER -> c

\* the text as it is, where str.lower() should be
unchanged_case(s) == s

\* str.lower()
lower(s) == [i \in 1..Len(s) |-> LowerChar(s[i])]

\* sub in s, for strings
Contains(s, sub) ==
    \E i \in 1..(Len(s) - Len(sub) + 1) : SubSeq(s, i, i + Len(sub) - 1) = sub

\* complexity_text and complexity of analyze_complexity (lines 36-37)
complexity_of(text) ==
    IF Contains(lower(Strip(text)), <<"s", "i", "m", "p", "l", "e">>)
    THEN "simple" ELSE "complex"

route_by_complexity(st) ==
    IF st.complexity = "simple" THEN "solve_simple" ELSE "break_down_complex"

\* graph.invoke({"problem": problem}); the answer the analyze call will get
InitBranch ==
    /\ bpc = "analyze"
    /\ complexity_text \in ComplexityTexts
    /\ branch_state = NoBranchState
    /\ path = <<>>
    /\ IdleScatter
    /\ IdleParse
    /\ IdleDriver
    /\ IdleMain
    /\ IdleCalc
    /\ IdleLog
    /\ IdleShop
    /\ IdleRefine
    /\ IdleHitl
    /\ IdleError
    /\ IdleTools

\* the graph calls node n; llm.invoke raises, which nothing catches, or
\* answers and the node returns st, after which the graph goes to nxt
RunBranchNode(n, raises, st, nxt) ==
    /\ bpc = n
    /\ path' = Append(path, n)
    /\ IF raises
       THEN bpc' = "raised" /\ UNCHANGED branch_state
       ELSE bpc' = nxt /\ branch_state' = st
    /\ UNCHANGED <<complexity_text, scatter_vars, parse_vars, driver_vars, main_vars,
                   calc_vars, log_vars, shop_vars, refine_vars, hitl_vars,
                   error_vars, tool_vars>>

AnalyzeComplexity ==
    \E raises \in BOOLEAN :
        LET st == [complexity |-> complexity_of(complexity_text), steps |-> "[]",
                   solution |-> 0, final_answer |-> 0]
        IN  RunBranchNode("analyze", raises, st, route_by_complexity(st))

SolveSimpleProblem ==
    \E raises \in BOOLEAN, answer \in 0..MaxSolutions :
        RunBranchNode("solve_simple", raises,
                      [branch_state EXCEPT !.steps = "Direct calculation",
                                           !.solution = answer],
                      "finalize")

\* the steps are the JSON list of the response or the four default steps
BreakDownComplex ==
    \E raises \in BOOLEAN, steps \in {"parsed list", "default steps"} :
        RunBranchNode("break_down_complex", raises,
                      [branch_state EXCEPT !.steps = steps], "solve_complex")

SolveComplexProblem ==
    \E raises \in BOOLEAN, answer \in 0..MaxSolutions :
        RunBranchNode("solve_complex", raises,
                      [branch_state EXCEPT !.solution = answer], "finalize")

CreateFinalAnswer ==
    \E raises \in BOOLEAN, answer \in 0..MaxSolutions :
        RunBranchNode("finalize", raises,
                      [branch_state EXCEPT !.final_answer = answer], "END")

NextBranch ==
    \/ AnalyzeComplexity
    \/ SolveSimpleProblem
    \/ BreakDownComplex
    \/ SolveComplexProblem
    \/ CreateFinalAnswer

SpecBranch == InitBranch /\ [][NextBranch]_vars

SimplePath == <<"analyze", "solve_simple", "finalize">>
ComplexPath == <<"analyze", "break_down_complex", "solve_complex", "finalize">>

\* the letters s, i, m, p, l, e, in either case, stand next to each other in
\* the text
SaysSimple(text) ==
    \E i \in 1..Len(text) :
        /\ i + 5 <= Len(text)
        /\ text[i] \in {"s", "S"} /\ text[i + 1] \in {"i", "I"}
        /\ text[i + 2] \in {"m", "M"} /\ text[i + 3] \in {"p", "P"}
        /\ text[i + 4] \in {"l", "L"} /\ text[i + 5] \in {"e", "E"}

\* C23: in usecase-012, for every answer to the complexity question,
\* state.complexity is simple exactly when the answer contains the word
\* simple (in any letter case) and complex otherwise; the nodes that run are
\* the start of analyze, solve_simple, finalize when it is simple and of
\* analyze, break_down_complex, solve_complex, finalize when it is complex,
\* and at END they are the whole of it: one branch ran, and finalize ran
\* once, last, after the node that set the solution.
C23_OneBranch ==
    /\ branch_state.complexity # "absent"
         => /\ branch_state.complexity
                 = IF SaysSimple(complexity_text) THEN "simple" ELSE "complex"
            /\ IsPrefix(path, IF branch_state.complexity = "simple"
                              THEN SimplePath ELSE ComplexPath)
    /\ bpc = "END"
         => /\ path = IF SaysSimple(complexity_text) THEN SimplePath ELSE ComplexPath
            /\ branch_state.solution # Missing
            /\ branch_state.final_answer # Missing

\* the answer Simple., in capitals, took the simple branch to END
C23_Witness ==
    /\ bpc = "END"
    /\ complexity_text = <<"S", "I", "M", "P", "L", "E", ".">>
    /\ path = SimplePath
    /\ branch_state.steps = "Direct calculation"

(***************************************************************************)
(* usecase-015: the tool-use graph analyze_query -> execute_tools ->       *)
(* analyze_results -> END.                                                 *)
(*                                                                         *)
(* An element of tools_to_use is what json.loads made of the model's       *)
(* text: an object with or without the keys name and args, or a value      *)
(* that is no object.  A name is a tool name, another string, absent, or   *)
(* a list; args are absent, a dict the tool accepts, a dict with a key     *)
(* the tool has no parameter for, a dict whose value the tool cannot       *)
(* handle, or a string.                                                    *)
(***************************************************************************)
MaxRequests == 2

TOOLS_BY_NAME == {"weather_tool", "wiki_tool", "calculator", "date_tool"}

RequestNames == {"calculator", "no_such_tool", "absent", "a list"}
RequestArgs == {"absent", "dict", "dict with unknown key", "dict with bad value",
                "string"}
ToolRequests ==
    {[object |-> FALSE, name |-> "absent", args |-> "absent"]}
      \cup [object : {TRUE}, name : RequestNames, args : RequestArgs]

\* tool_request.get raises AttributeError on a value that is no object, and
\* tool_name in TOOLS_BY_NAME raises TypeError on a list
LookupRaises(request) == ~request.object \/ request.name = "a list"

\* tool_request.get("name"), tool_request.get("args", {})
tool_name(request) == IF request.name = "absent" THEN "None" ELSE request.name
tool_args(request) == IF request.args = "absent" THEN "{}" ELSE request.args

\* tool(**tool_args) or tool(tool_args) raises: {} leaves the required
\* parameter out, an unknown key is no parameter, a bad value fails inside
ToolRaises(args) == args \in {"{}", "dict with unknown key", "dict with bad value"}

\* the entry execute_tools appends for one request (lines 232-270)
ToolResult(request) ==
    [tool |-> tool_name(request), args |-> tool_args(request),
     status |-> IF tool_name(request) \in TOOLS_BY_NAME
                   /\ ~ToolRaises(tool_args(request))
                THEN "success" ELSE "error"]

\* the loop that gives up at the first request it cannot serve
RECURSIVE execute_until_error(_)
execute_until_error(requests) ==
    IF requests = <<>> THEN [raised |-> FALSE, tool_results |-> <<>>]
    ELSE IF LookupRaises(Head(requests))
    THEN [raised |-> TRUE, tool_results |-> <<>>]
    ELSE IF ToolResult(Head(requests)).status = "error"
    THEN [raised |-> FALSE, tool_results |-> <<ToolResult(Head(requests))>>]
    ELSE LET rest == execute_until_error(Tail(requests))
         IN  [raised |-> rest.raised,
              tool_results |-> <<ToolResult(Head(requests))>> \o rest.tool_results]

\* for tool_request in tools_to_use: ... (lines 226-272)
RECURSIVE execute_tools(_)
execute_tools(requests) ==
    IF requests = <<>> THEN [raised |-> FALSE, tool_results |-> <<>>]
    ELSE IF LookupRaises(Head(requests))
    THEN [raised |-> TRUE, tool_results |-> <<>>]
    ELSE LET rest == execute_tools(Tail(requests))
         IN  [raised |-> rest.raised,
              tool_results |-> <<ToolResult(Head(requests))>> \o rest.tool_results]

\* request['name'] and request['args'] of the pairs zip gives (lines 285-292)
FormatRaises(requests, tool_results) ==
    \E i \in 1..Len(requests) :
        /\ i <= Len(tool_results)
        /\ requests[i].name = "absent" \/ requests[i].args = "absent"

\* what analyze_query makes of the response (lines 193-213): the list under
\* tools_to_use, a one-element list around a value that is no list, or the
\* empty list when the parse fails or the key is missing
Analyses ==
    [kind : {"list"}, tools : SeqsUpTo(ToolRequests, MaxRequests)]
      \cup [kind : {"not a list"}, tools : {<<r>> : r \in ToolRequests}]
      \cup [kind : {"no key", "not json"}, tools : {<<>>}]

\* graph.invoke(initial_state)
InitTools ==
    /\ tpc = "analyze_query"
    /\ tool_state = initial_tool_state
    /\ IdleScatter
    /\ IdleParse
    /\ IdleDriver
    /\ IdleMain
    /\ IdleCalc
    /\ IdleLog
    /\ IdleShop
    /\ IdleRefine
    /\ IdleHitl
    /\ IdleError
    /\ IdleBranch

\* the graph calls node n, which raises or returns st, and goes to nxt
RunToolNode(n, st, nxt) ==
    /\ tpc = n
    /\ tool_state' = st
    /\ tpc' = nxt
    /\ UNCHANGED <<scatter_vars, parse_vars, driver_vars, main_vars, calc_vars,
                   log_vars, shop_vars, refine_vars, hitl_vars, error_vars,
                   branch_vars>>

AnalyzeQuery ==
    \E raises \in BOOLEAN, a \in Analyses :
        IF raises
        THEN RunToolNode("analyze_query", tool_state, "model call raised")
        ELSE RunToolNode("analyze_query",
                         [tool_state EXCEPT
                            !.thoughts = IF a.kind = "not json"
                                         THEN "Failed to parse structured analysis"
                                         ELSE "given",
                            !.tools_to_use = a.tools,
                            !.tool_results = <<>>],
                         "execute_tools")

ExecuteTools ==
    LET r == execute_tools(tool_state.tools_to_use)
    IN  IF r.raised
        THEN RunToolNode("execute_tools", tool_state, "raised in execute_tools")
        ELSE RunToolNode("execute_tools",
                         [tool_state EXCEPT !.tool_results = r.tool_results],
                         "analyze_results")

AnalyzeToolResults ==
    \E raises \in BOOLEAN, answer \in 1..MaxAnswers :
        IF FormatRaises(tool_state.tools_to_use, tool_state.tool_results)
        THEN RunToolNode("analyze_results", tool_state, "raised in analyze_results")
        ELSE IF raises
        THEN RunToolNode("analyze_results", tool_state, "model call raised")
        ELSE RunToolNode("analyze_results",
                         [tool_state EXCEPT !.final_answer = answer], "END")

NextTools ==
    \/ AnalyzeQuery
    \/ ExecuteTools
    \/ AnalyzeToolResults

SpecTools == InitTools /\ [][NextTools]_vars

\* execute_tools has returned
Executed == tpc \in {"analyze_results", "END", "raised in analyze_results"}

\* every element is an object whose name is a string or is missing
NamesTools(requests) ==
    \A i \in 1..Len(requests) : requests[i].object /\ requests[i].name # "a list"

\* C24: in usecase-015, for a tools_to_use whose elements are objects that
\* name their tool by a string (or by nothing), execute_tools returns, and
\* tool_results has one entry per element, in the same order, for the same
\* tool and arguments; the entry has status error when the name is not in
\* TOOLS_BY_NAME or the call raised and success otherwise, whatever happened
\* to the requests before it.
C24_OneResultPerRequest ==
    LET requests == tool_state.tools_to_use
        tool_results == tool_state.tool_results
    IN  /\ NamesTools(requests) => tpc # "raised in execute_tools"
        /\ Executed
             => /\ Len(tool_results) = Len(requests)
                /\ \A i \in 1..Len(requests) :
                     /\ tool_results[i].tool
                          = IF requests[i].name = "absent" THEN "None"
                            ELSE requests[i].name
                     /\ tool_results[i].args
                          = IF requests[i].args = "absent" THEN "{}"
                            ELSE requests[i].args
                     /\ tool_results[i].status
                          = IF requests[i].name = "calculator"
                               /\ requests[i].args \in {"dict", "string"}
                            THEN "success" ELSE "error"

\* a call that raised, then a call that succeeded
C24_Witness ==
    /\ tpc = "analyze_results"
    /\ Len(tool_state.tools_to_use) = 2
    /\ tool_state.tools_to_use[1].name = "calculator"
    /\ tool_state.tools_to_use[1].args = "dict with unknown key"
    /\ tool_state.tool_results[1].status = "error"
    /\ tool_state.tool_results[2].status = "success"

\* C25: in usecase-015, whatever tools_to_use the model returns inside valid
\* JSON, neither execute_tools nor analyze_results raises on it.
C25_MalformedRequestsRecorded ==
    tpc \notin {"raised in execute_tools", "raised in analyze_results"}

\* C26: in usecase-019, whenever break_down has returned and
\* run_parallel_research is about to create its pool, there is at least one
\* sub-question, so the pool is created with at least one worker.
C26_PoolHasWorker ==
    mpc = "parallel_research" => PoolSize(sub_questions) >= 1

(***************************************************************************)
(* usecase-020: the versions and the status of the document.               *)
(***************************************************************************)
Document == Holds(gstate).document
VersionNumbers(d) == [i \in DOMAIN d.versions |-> d.versions[i].version_number]
\* generate_document_content has returned
Generated == pipe = "usecase-020" /\ Len(Document.edit_history) >= 1

\* C27: in usecase-020, once generate_content has returned, no two versions
\* of the document have the same version_number and exactly one has the
\* number current_version; a format_document step that returns appends
\* exactly one version, numbered current_version + 1, and makes it current;
\* review_document and finalize change neither versions nor
\* current_version.
C27_VersionNumbers ==
    /\ [](Generated
            => /\ \A i, j \in DOMAIN Document.versions :
                    Document.versions[i].version_number
                       = Document.versions[j].version_number => i = j
               /\ Cardinality({i \in DOMAIN Document.versions :
                                 Document.versions[i].version_number
                                    = Document.current_version}) = 1)
    /\ [][ppc = "format_document" /\ ppc' = "review_document"
            => /\ Len(Document'.versions) = Len(Document.versions) + 1
               /\ IsPrefix(Document.versions, Document'.versions)
               /\ Document'.versions[Len(Document'.versions)].version_number
                     = Document.current_version + 1
               /\ Document'.current_version = Document.current_version + 1]_vars
    /\ [][pipe = "usecase-020" /\ ppc \in {"review_document", "finalize"}
            => /\ Document'.versions = Document.versions
               /\ Document'.current_version = Document.current_version]_vars

\* format_document has added version 2 to version 1 and made it current
C27_Witness ==
    /\ pipe = "usecase-020"
    /\ ppc = "review_document"
    /\ VersionNumbers(Document) = <<1, 2>>
    /\ Document.current_version = 2

\* the moves of document.status that the workflow allows
StatusMoves == {<<"None", "draft">>, <<"draft", "review">>, <<"review", "approved">>}

\* C28: in usecase-020, document.status stays as it is or moves from draft
\* to review or from review to approved (it is draft when the document is
\* created), it is never published, it is approved only when a review is in
\* edit_history, and at END edit_history is create, format, review, approve.
C28_StatusOrder ==
    /\ [][Document'.status = Document.status
            \/ <<Document.status, Document'.status>> \in StatusMoves]_vars
    /\ [](Document.status # "published")
    /\ [](Document.status = "approved"
            => \E i \in DOMAIN Document.edit_history :
                 Document.edit_history[i] = "review")
    /\ [](pipe = "usecase-020" /\ ppc = "END"
            => Document.edit_history = <<"create", "format", "review", "approve">>)

\* the document was approved after its review and the workflow has ended
C28_Witness ==
    /\ pipe = "usecase-020"
    /\ ppc = "END"
    /\ Document.status = "approved"
    /\ Document.edit_history[3] = "review"

====
